---- MODULE Spec2Model ----
(***************************************************************************)
(* Format King (src/app.js, class FormatKing, lines 1-1090): the           *)
(* format-detection and parsing pipeline, the table-set reconciler and the *)
(* sort / filter / select operations on the canonical document state.      *)
(*                                                                         *)
(* A JavaScript string is modelled as a sequence of characters, each       *)
(* character being a one-character TLA+ string (the box-drawing characters *)
(* are written by their code point, "U2502" for the vertical bar).  A cell *)
(* is a string, a row a sequence of cells, a table a record                *)
(* [name, headers, data].                                                  *)
(***************************************************************************)
EXTENDS Integers, Sequences, FiniteSets, TLC

VARIABLES
    headers,            \* this.headers
    data,               \* this.data
    filteredData,       \* this.filteredData
    sortColumn,         \* this.sortColumn
    sortDirection,      \* this.sortDirection
    tables,             \* this.tables
    currentTableIndex,  \* this.currentTableIndex
    searchTerm,         \* this.searchInput.value
    pending,            \* FileReader reads started by processFile, not yet completed
    toast,              \* the message of the last showToast
    lastOp,             \* the handler that ran last, with its arguments
    steps,              \* number of handlers run so far
    resorted,           \* a sortTable ran since filteredData was last derived from data
    selSnap,            \* per table index, the canonical state its first selection
                        \* over the current TableSet produced
    call,               \* a method called on its own: its name and arguments
    returned            \* what that call returned

vars == <<headers, data, filteredData, sortColumn, sortDirection, tables,
          currentTableIndex, searchTerm, pending, toast, lastOp, steps,
          resorted, selSnap, call, returned>>

----------------------------------------------------------------------------
(* Characters and JavaScript string primitives *)

NL == "\n"
CR == "\r"
TAB == "\t"
SP == " "
QUOTE == "\""
BoxV == "U2502"
BoxH == "U2500"
BoxTL == "U250C"
BoxTR == "U2510"
BoxBL == "U2514"
BoxBR == "U2518"
BoxL == "U251C"
BoxR == "U2524"
BoxT == "U252C"
BoxB == "U2534"
BoxX == "U253C"

\* the characters String.prototype.trim and the regex class \s remove
WhiteSpace == {SP, TAB, NL, CR}

\* the characters the regex . does not match, and at which ^ and $ anchor under /m
LineTerminators == {NL, CR}

Digit == {"0", "1", "2", "3", "4", "5", "6", "7", "8", "9"}

DigitValue(c) ==
    CASE c = "0" -> 0 [] c = "1" -> 1 [] c = "2" -> 2 [] c = "3" -> 3 [] c = "4" -> 4
      [] c = "5" -> 5 [] c = "6" -> 6 [] c = "7" -> 7 [] c = "8" -> 8 [] c = "9" -> 9

DigitChar(n) ==
    CASE n = 0 -> "0" [] n = 1 -> "1" [] n = 2 -> "2" [] n = 3 -> "3" [] n = 4 -> "4"
      [] n = 5 -> "5" [] n = 6 -> "6" [] n = 7 -> "7" [] n = 8 -> "8" [] n = 9 -> "9"

\* the printable ASCII characters, from code 32 (space) to code 126 (~)
AsciiPrintable ==
    <<SP, "!", QUOTE, "#", "$", "%", "&", "'", "(", ")", "*", "+", ",", "-", ".",
      "/", "0", "1", "2", "3", "4", "5", "6", "7", "8", "9", ":", ";", "<", "=", ">",
      "?", "@", "A", "B", "C", "D", "E", "F", "G", "H", "I", "J", "K", "L", "M", "N",
      "O", "P", "Q", "R", "S", "T", "U", "V", "W", "X", "Y", "Z", "[", "\\", "]",
      "^", "_", "U0060", "a", "b", "c", "d", "e", "f", "g", "h", "i", "j", "k", "l", "m",
      "n", "o", "p", "q", "r", "s", "t", "u", "v", "w", "x", "y", "z", "{", "|", "}",
      "~">>

AsciiBase == 31

\* UTF-16 code unit of a character: the order the < and > of strings compare by
CharCode(c) ==
    CASE c = TAB -> 9 [] c = NL -> 10 [] c = CR -> 13
      [] c = BoxH -> 9472 [] c = BoxV -> 9474 [] c = BoxTL -> 9484
      [] c = BoxTR -> 9488 [] c = BoxBL -> 9492 [] c = BoxBR -> 9496
      [] c = BoxL -> 9500 [] c = BoxR -> 9508 [] c = BoxT -> 9516
      [] c = BoxB -> 9524 [] c = BoxX -> 9532
      [] OTHER -> AsciiBase + CHOOSE i \in 1..Len(AsciiPrintable) : AsciiPrintable[i] = c

CodeA == 65

CodeZ == 90

CaseOffset == 32

\* String.prototype.toLowerCase, one character: A-Z to a-z
LowerChar(c) ==
    IF CharCode(c) >= CodeA /\ CharCode(c) <= CodeZ
    THEN AsciiPrintable[CharCode(c) + CaseOffset - AsciiBase]
    ELSE c

toLowerCase(s) == [i \in 1..Len(s) |-> LowerChar(s[i])]

SetMin(S) == CHOOSE x \in S : \A y \in S : x <= y

SetMax(S) == CHOOSE x \in S : \A y \in S : x >= y

RECURSIVE trimStart(_)
trimStart(s) ==
    IF Len(s) > 0 /\ s[1] \in WhiteSpace THEN trimStart(Tail(s)) ELSE s

RECURSIVE trimEnd(_)
trimEnd(s) ==
    IF Len(s) > 0 /\ s[Len(s)] \in WhiteSpace
    THEN trimEnd(SubSeq(s, 1, Len(s) - 1)) ELSE s

trim(s) == trimEnd(trimStart(s))

\* String.prototype.split with a one-character separator
RECURSIVE split(_, _)
split(s, d) ==
    LET at == {i \in 1..Len(s) : s[i] = d} IN
    IF at = {} THEN <<s>>
    ELSE LET i == SetMin(at) IN
         <<SubSeq(s, 1, i - 1)>> \o split(SubSeq(s, i + 1, Len(s)), d)

\* Array.prototype.join with a one-character separator
RECURSIVE join(_, _)
join(parts, d) ==
    IF Len(parts) = 0 THEN <<>>
    ELSE IF Len(parts) = 1 THEN parts[1]
    ELSE parts[1] \o <<d>> \o join(Tail(parts), d)

\* String.prototype.includes
includes(s, sub) ==
    \E i \in 0..(Len(s) - Len(sub)) : SubSeq(s, i + 1, i + Len(sub)) = sub

startsWith(s, pre) == Len(s) >= Len(pre) /\ SubSeq(s, 1, Len(pre)) = pre

endsWith(s, suf) ==
    Len(s) >= Len(suf) /\ SubSeq(s, Len(s) - Len(suf) + 1, Len(s)) = suf

\* decimal numeral of a natural number, as `${n}` prints it
RECURSIVE numeral(_)
numeral(n) ==
    IF n < 10 THEN <<DigitChar(n)>> ELSE numeral(n \div 10) \o <<DigitChar(n % 10)>>

----------------------------------------------------------------------------
(* Delimiter detector and delimited-text parser *)

\* number of occurrences of character d in s: (line.match(/d/g) || []).length
countChar(s, d) == Cardinality({i \in 1..Len(s) : s[i] = d})

RECURSIVE SumSeq(_)
SumSeq(s) == IF Len(s) = 0 THEN 0 ELSE Head(s) + SumSeq(Tail(s))

MaxDetectLines == 5

Delimiters == <<",", ";", TAB, "|">>

\* score = avg / (variance + 1) as the exact fraction num/den over the per-line
\* counts c (n = Len(c), S = sum): avg = S/n, variance = sum (n*v - S)^2 / n^3,
\* so score = S*n^2 / (sum (n*v - S)^2 + n^3); 0/1 when avg is 0.
delimiterScore(c) ==
    LET n == Len(c)
        S == SumSeq(c)
        V == SumSeq([i \in 1..n |-> (n * c[i] - S) * (n * c[i] - S)])
    IN  IF S > 0 THEN [num |-> S * n * n, den |-> V + n * n * n]
        ELSE [num |-> 0, den |-> 1]

scoreGreater(a, b) == a.num * b.den > b.num * a.den

RECURSIVE detectLoop(_, _, _, _)
detectLoop(lines, k, bestDelimiter, bestScore) ==
    IF k > Len(Delimiters) THEN bestDelimiter
    ELSE LET d == Delimiters[k]
             score == delimiterScore([i \in 1..Len(lines) |-> countChar(lines[i], d)])
         IN  IF scoreGreater(score, bestScore)
             THEN detectLoop(lines, k + 1, d, score)
             ELSE detectLoop(lines, k + 1, bestDelimiter, bestScore)

detectDelimiter(text) ==
    LET all == split(trim(text), NL)
        lines == SubSeq(all, 1, IF Len(all) < MaxDetectLines THEN Len(all) ELSE MaxDetectLines)
    IN  detectLoop(lines, 1, ",", [num |-> 0, den |-> 1])

\* the test of a row that keeps every row
someNonEmptyAlways(row) == TRUE

\* row.some(cell => cell !== '')
someNonEmpty(row) == \E i \in 1..Len(row) : row[i] # <<>>

RECURSIVE parseCSVLoop(_, _, _, _, _, _, _)
parseCSVLoop(text, delimiter, i, rows, currentRow, currentCell, inQuotes) ==
    IF i > Len(text)
    THEN \* push last row if exists
         IF Len(currentCell) > 0 \/ Len(currentRow) > 0
         THEN LET last == Append(currentRow, trim(currentCell)) IN
              IF someNonEmpty(last) THEN Append(rows, last) ELSE rows
         ELSE rows
    ELSE LET char == text[i]
             nextIs(c) == i + 1 <= Len(text) /\ text[i + 1] = c
         IN  IF inQuotes
             THEN IF char = QUOTE /\ nextIs(QUOTE)
                  THEN parseCSVLoop(text, delimiter, i + 2, rows, currentRow,
                                    Append(currentCell, QUOTE), TRUE)
                  ELSE IF char = QUOTE
                  THEN parseCSVLoop(text, delimiter, i + 1, rows, currentRow,
                                    currentCell, FALSE)
                  ELSE parseCSVLoop(text, delimiter, i + 1, rows, currentRow,
                                    Append(currentCell, char), TRUE)
             ELSE IF char = QUOTE
                  THEN parseCSVLoop(text, delimiter, i + 1, rows, currentRow,
                                    currentCell, TRUE)
                  ELSE IF char = delimiter
                  THEN parseCSVLoop(text, delimiter, i + 1, rows,
                                    Append(currentRow, trim(currentCell)), <<>>, FALSE)
                  ELSE IF char = NL \/ (char = CR /\ nextIs(NL))
                  THEN LET done == Append(currentRow, trim(currentCell)) IN
                       parseCSVLoop(text, delimiter, IF char = CR THEN i + 2 ELSE i + 1,
                                    IF someNonEmpty(done) THEN Append(rows, done) ELSE rows,
                                    <<>>, <<>>, FALSE)
                  ELSE IF char # CR
                  THEN parseCSVLoop(text, delimiter, i + 1, rows, currentRow,
                                    Append(currentCell, char), FALSE)
                  ELSE parseCSVLoop(text, delimiter, i + 1, rows, currentRow,
                                    currentCell, FALSE)

\* parseCSV taking its first character as quoted
parseCSVQuoted(text, delimiter) == parseCSVLoop(text, delimiter, 1, <<>>, <<>>, <<>>, TRUE)

parseCSV(text, delimiter) == parseCSVLoop(text, delimiter, 1, <<>>, <<>>, <<>>, FALSE)

\* row padded on the right with '' up to n cells
padRight(row, n) == [i \in 1..(IF Len(row) > n THEN Len(row) ELSE n) |->
                        IF i <= Len(row) THEN row[i] ELSE <<>>]

columnName(i) == <<"C", "o", "l", "u", "m", "n", SP>> \o numeral(i)

\* processData without its early return: the headers and data it installs for a
\* non-empty list of rows; checked is this.firstRowHeader.checked
processDataResult(rows, checked) ==
    LET maxCols == SetMax({Len(rows[i]) : i \in 1..Len(rows)})
        norm == [i \in 1..Len(rows) |-> padRight(rows[i], maxCols)]
    IN  IF checked
        THEN [headers |-> norm[1], data |-> Tail(norm)]
        ELSE [headers |-> [i \in 1..Len(norm[1]) |-> columnName(i)], data |-> norm]

----------------------------------------------------------------------------
(* Regular expressions, as sets of positions: a position p in 1..Len(t)+1  *)
(* stands between t[p-1] and t[p]; each operator maps the positions where  *)
(* a match may stand to the positions where it may stand after one more    *)
(* piece of the pattern, over every way the pattern can backtrack.         *)

\* ^ under the m flag
LineStarts(t) == {1} \cup {i + 1 : i \in {j \in 1..Len(t) : t[j] \in LineTerminators}}

\* $ under the m flag
LineEnds(t) == {Len(t) + 1} \cup {j \in 1..Len(t) : t[j] \in LineTerminators}

\* [class]
One(t, S, class) == {p + 1 : p \in {q \in S : q <= Len(t) /\ t[q] \in class}}

\* [^class]
OneNot(t, S, class) == {p + 1 : p \in {q \in S : q <= Len(t) /\ t[q] \notin class}}

\* [class]*
Star(t, S, class) ==
    {q \in 1..(Len(t) + 1) : \E p \in S : p <= q /\ \A k \in p..(q - 1) : t[k] \in class}

\* [^class]*
StarNot(t, S, class) ==
    {q \in 1..(Len(t) + 1) : \E p \in S : p <= q /\ \A k \in p..(q - 1) : t[k] \notin class}

\* [class]?
Opt(t, S, class) == S \cup One(t, S, class)

\* a literal string
Lit(t, S, str) ==
    {p + Len(str) : p \in {q \in S : q + Len(str) - 1 <= Len(t)
                                     /\ SubSeq(t, q, q + Len(str) - 1) = str}}

----------------------------------------------------------------------------
(* Box-table detector and parser *)

BoxChars == {BoxTL, BoxTR, BoxBL, BoxBR, BoxL, BoxR, BoxT, BoxB, BoxX, BoxH, BoxV}

TABLEColon == <<"T", "A", "B", "L", "E", ":">>

\* /^\s*\+[-+]+\+/m
hasBorderLines(text) ==
    LET a == One(text, Star(text, LineStarts(text), WhiteSpace), {"+"})
        b == Star(text, One(text, a, {"-", "+"}), {"-", "+"})
    IN  One(text, b, {"+"}) # {}

\* /^\s*D.+D/m for the data-line delimiter D
hasDataLinesOf(text, D) ==
    LET a == One(text, Star(text, LineStarts(text), WhiteSpace), {D})
        b == StarNot(text, OneNot(text, a, LineTerminators), LineTerminators)
    IN  One(text, b, {D}) # {}

\* /^=+\s*\n\s*TABLE:/m
hasTableBanner(text) ==
    LET a == Star(text, One(text, LineStarts(text), {"="}), {"="})
        b == One(text, Star(text, a, WhiteSpace), {NL})
    IN  Lit(text, Star(text, b, WhiteSpace), TABLEColon) # {}

isDatabricksFormat(text) ==
    LET hasDataLines == hasDataLinesOf(text, "|")
        hasTableHeader == hasTableBanner(text) \/ hasBorderLines(text)
        hasUnicodeBorders == \E i \in 1..Len(text) : text[i] \in BoxChars
        hasUnicodeDataLines == hasDataLinesOf(text, BoxV)
    IN  (hasBorderLines(text) /\ hasDataLines) \/ hasTableHeader
        \/ (hasUnicodeBorders /\ hasUnicodeDataLines)

\* line.replace(/,+$/, '')
RECURSIVE stripTrailingCommas(_)
stripTrailingCommas(s) ==
    IF Len(s) > 0 /\ s[Len(s)] = ","
    THEN stripTrailingCommas(SubSeq(s, 1, Len(s) - 1)) ELSE s

allIn(s, class) == \A i \in 1..Len(s) : s[i] \in class

\* /^=+$/ or /^\+[-+]+\+?$/ or /^[TL L BL][H T X B]+[TR R BR]?$/
isSeparatorLine(s) ==
    \/ Len(s) >= 1 /\ allIn(s, {"="})
    \/ Len(s) >= 2 /\ s[1] = "+" /\ allIn(Tail(s), {"-", "+"})
    \/ /\ Len(s) >= 2
       /\ s[1] \in {BoxTL, BoxL, BoxBL}
       /\ \/ allIn(Tail(s), {BoxH, BoxT, BoxX, BoxB})
          \/ /\ Len(s) >= 3
             /\ s[Len(s)] \in {BoxTR, BoxR, BoxBR}
             /\ allIn(SubSeq(s, 2, Len(s) - 1), {BoxH, BoxT, BoxX, BoxB})

isBoxDataLine(s) == Len(s) > 0 /\ s[1] \in {"|", BoxV}

\* the cells of a data line: leading delimiter removed, one trailing delimiter
\* removed if present, the rest split on the delimiter, each cell trimmed
boxCells(s) ==
    LET delimiter == IF s[1] = BoxV THEN BoxV ELSE "|"
        c1 == Tail(s)
        content == IF Len(c1) > 0 /\ c1[Len(c1)] = delimiter
                   THEN SubSeq(c1, 1, Len(c1) - 1) ELSE c1
        parts == split(content, delimiter)
    IN  [i \in 1..Len(parts) |-> trim(parts[i])]

\* line.match(/^TABLE:\s*(.+)$/): the captured name, <<>> when there is no match
tableNameMatch(line) ==
    LET rest == trimStart(SubSeq(line, Len(TABLEColon) + 1, Len(line))) IN
    IF startsWith(line, TABLEColon) /\ Len(rest) > 0
       /\ \A i \in 1..Len(rest) : rest[i] \notin LineTerminators
    THEN rest ELSE <<>>

tableWord == <<"T", "a", "b", "l", "e">>

\* `Table ${n}`
defaultTableName(n) == tableWord \o <<SP>> \o numeral(n)

\* currentTableName || `Table ${tables.length + 1}` (null is modelled as '')
nameOr(name, n) == IF Len(name) > 0 THEN name ELSE defaultTableName(n)

\* the in-progress table put in the place of the tables before it
flushTableAlone(tbls, name, hdrs, rows) ==
    IF Len(rows) > 0 /\ Len(hdrs) > 0
    THEN <<[name |-> nameOr(name, Len(tbls) + 1), headers |-> hdrs, data |-> rows]>>
    ELSE tbls

\* tables with the in-progress table pushed, if it has rows and headers
flushTable(tbls, name, hdrs, rows) ==
    IF Len(rows) > 0 /\ Len(hdrs) > 0
    THEN Append(tbls, [name |-> nameOr(name, Len(tbls) + 1), headers |-> hdrs, data |-> rows])
    ELSE tbls

\* the title line parseSingleAsciiTable looks for before the table; <<>> if none
RECURSIVE titleScan(_, _)
titleScan(lines, i) ==
    IF i > Len(lines) THEN <<>>
    ELSE LET trimmed == trim(lines[i])
             candidate == /\ Len(trimmed) > 0
                          /\ trimmed[1] \notin {BoxTL, BoxL, BoxBL, "+", BoxV, "|"}
                          /\ ~allIn(trimmed, {"="})
             nextLine(j) == trim(lines[i + j])
             \* the first j in 1..3 whose line starts a border or a data line
             stops == {j \in 1..3 : i + j <= Len(lines) /\ Len(nextLine(j)) > 0
                                     /\ nextLine(j)[1] \in {BoxTL, "+", BoxV, "|"}}
             found == stops # {} /\ nextLine(SetMin(stops))[1] \in {BoxTL, "+"}
         IN  IF candidate /\ found THEN trimmed
             ELSE IF Len(trimmed) > 0 /\ trimmed[1] \in {BoxTL, "+", BoxV, "|"} THEN <<>>
             ELSE titleScan(lines, i + 1)

RECURSIVE singleLoop(_, _, _, _, _)
singleLoop(lines, i, hdrs, rows, headerParsed) ==
    IF i > Len(lines) THEN [headers |-> hdrs, data |-> rows]
    ELSE LET trimmed == trim(stripTrailingCommas(trim(lines[i]))) IN
         IF isSeparatorLine(trimmed) \/ ~isBoxDataLine(trimmed)
         THEN singleLoop(lines, i + 1, hdrs, rows, headerParsed)
         ELSE IF ~headerParsed
         THEN singleLoop(lines, i + 1, boxCells(trimmed), rows, TRUE)
         ELSE singleLoop(lines, i + 1, hdrs, Append(rows, boxCells(trimmed)), TRUE)

\* the tables parseSingleAsciiTable contributes: one table, or none (null)
parseSingleAsciiTable(text) ==
    LET lines == split(text, NL)
        tableName == titleScan(lines, 1)
        r == singleLoop(lines, 1, <<>>, <<>>, FALSE)
    IN  IF Len(r.headers) > 0
        THEN <<[name |-> nameOr(tableName, 1), headers |-> r.headers, data |-> r.data]>>
        ELSE <<>>

RECURSIVE databricksLoop(_, _, _, _, _, _, _)
databricksLoop(lines, i, tbls, name, rows, hdrs, headerParsed) ==
    IF i > Len(lines) THEN flushTable(tbls, name, hdrs, rows)
    ELSE LET line == trim(lines[i])
             newName == tableNameMatch(line)
             cleanLine == trim(stripTrailingCommas(line))
         IN  IF Len(newName) > 0
             THEN databricksLoop(lines, i + 1, flushTable(tbls, name, hdrs, rows),
                                 trim(newName), <<>>, <<>>, FALSE)
             ELSE IF isSeparatorLine(cleanLine) \/ ~isBoxDataLine(cleanLine)
             THEN databricksLoop(lines, i + 1, tbls, name, rows, hdrs, headerParsed)
             ELSE IF ~headerParsed
             THEN databricksLoop(lines, i + 1, tbls, name, rows, boxCells(cleanLine), TRUE)
             ELSE databricksLoop(lines, i + 1, tbls, name,
                                 Append(rows, boxCells(cleanLine)), hdrs, TRUE)

parseDatabricksFormat(text) ==
    LET named == databricksLoop(split(text, NL), 1, <<>>, <<>>, <<>>, <<>>, FALSE) IN
    IF Len(named) = 0 THEN parseSingleAsciiTable(text) ELSE named

----------------------------------------------------------------------------
(* Markdown-table detector and parser *)

\* -{2,}
dashes2(t, S) == Star(t, One(t, One(t, S, {"-"}), {"-"}), {"-"})

\* :?-{2,}:?\s*
sepCell(t, S) == Star(t, Opt(t, dashes2(t, Opt(t, S, {":"})), {":"}), WhiteSpace)

\* (\|\s*:?-{2,}:?\s*)+ : every position one or more rounds of the group reach
RECURSIVE sepGroupPlus(_, _, _)
sepGroupPlus(t, frontier, reached) ==
    LET next == sepCell(t, Star(t, One(t, frontier, {"|"}), WhiteSpace)) \ reached IN
    IF next = {} THEN reached ELSE sepGroupPlus(t, next, reached \cup next)

\* /^\|?\s*:?-{2,}:?\s*(\|\s*:?-{2,}:?\s*)+\|?\s*$/ between the positions
\* starts (where ^ holds) and ends (where $ holds)
sepPatternTest(t, starts, ends) ==
    LET first == sepCell(t, Star(t, Opt(t, starts, {"|"}), WhiteSpace))
        cells == sepGroupPlus(t, first, {})
    IN  Star(t, Opt(t, cells, {"|"}), WhiteSpace) \cap ends # {}

\* text.split('\n').filter(l => l.trim())
nonBlankLines(text) == SelectSeq(split(text, NL), LAMBDA l : Len(trim(l)) > 0)

isMarkdownTable(text) ==
    /\ sepPatternTest(text, LineStarts(text), LineEnds(text))
    /\ \E l \in {nonBlankLines(text)[i] : i \in 1..Len(nonBlankLines(text))} :
          /\ "|" \in {l[i] : i \in 1..Len(l)}
          /\ ~allIn(trim(l), WhiteSpace \cup {"|", ":", "*", "-"})

\* text.split(/\n\s*\n/)
RECURSIVE splitBlocks(_)
splitBlocks(t) ==
    LET closes(p) == {q \in (p + 1)..Len(t) :
                        t[q] = NL /\ \A k \in (p + 1)..(q - 1) : t[k] \in WhiteSpace}
        opens == {p \in 1..Len(t) : t[p] = NL /\ closes(p) # {}}
    IN  IF opens = {} THEN <<t>>
        ELSE LET p == SetMin(opens)
                 q == SetMax(closes(p))
             IN  <<SubSeq(t, 1, p - 1)>> \o splitBlocks(SubSeq(t, q + 1, Len(t)))

splitRow(line) ==
    LET s0 == trim(line)
        s1 == IF Len(s0) > 0 /\ s0[1] = "|" THEN Tail(s0) ELSE s0
        s2 == IF Len(s1) > 0 /\ s1[Len(s1)] = "|" THEN SubSeq(s1, 1, Len(s1) - 1) ELSE s1
        parts == split(s2, "|")
    IN  [i \in 1..Len(parts) |-> trim(parts[i])]

\* the table of one block: <<table>> with the name left to the caller, or <<>>
markdownBlock(block) ==
    LET lines == nonBlankLines(block)
        seps == {i \in 1..Len(lines) :
                    sepPatternTest(trim(lines[i]), {1}, {Len(trim(lines[i])) + 1})}
    IN  IF seps = {} \/ SetMin(seps) = 1 THEN <<>>
        ELSE LET sepIndex == SetMin(seps)
                 hdrs == splitRow(lines[sepIndex - 1])
                 later == SelectSeq(SubSeq(lines, sepIndex + 1, Len(lines)),
                                    LAMBDA l : "|" \in {l[i] : i \in 1..Len(l)})
                 rows == [i \in 1..Len(later) |-> splitRow(later[i])]
             IN  IF Len(hdrs) > 0 /\ Len(rows) > 0
                 THEN <<[headers |-> hdrs, data |-> rows]>> ELSE <<>>

\* parseMarkdownTable naming each table by the number of its block
RECURSIVE markdownLoopByBlock(_, _, _)
markdownLoopByBlock(blocks, i, tbls) ==
    IF i > Len(blocks) THEN tbls
    ELSE LET b == markdownBlock(blocks[i]) IN
         markdownLoopByBlock(blocks, i + 1,
             IF Len(b) = 0 THEN tbls
             ELSE Append(tbls, [name |-> defaultTableName(i),
                                headers |-> b[1].headers, data |-> b[1].data]))

RECURSIVE markdownLoop(_, _, _)
markdownLoop(blocks, i, tbls) ==
    IF i > Len(blocks) THEN tbls
    ELSE LET b == markdownBlock(blocks[i]) IN
         markdownLoop(blocks, i + 1,
             IF Len(b) = 0 THEN tbls
             ELSE Append(tbls, [name |-> defaultTableName(Len(tbls) + 1),
                                headers |-> b[1].headers, data |-> b[1].data]))

parseMarkdownTable(text) == markdownLoop(splitBlocks(text), 1, <<>>)

----------------------------------------------------------------------------
(* Fixed-width detector and parser *)

MinFixedWidthLines == 3

MinFixedWidthLen == 5

MinContentLines == 2

MinGapWidth == 2

\* spaceCount[i] >= contentLines.length * 0.8, in integers: 5 * count >= 4 * n
ThresholdNum == 4

ThresholdDen == 5

meetsThreshold(count, n) == ThresholdDen * count >= ThresholdNum * n

maxLength(lines) == SetMax({Len(lines[i]) : i \in 1..Len(lines)})

\* number of content lines with a space in 0-based column i; a column past the
\* end of a line counts as a space
spaceCountAt(contentLines, i) ==
    Cardinality({k \in 1..Len(contentLines) :
                    i + 1 > Len(contentLines[k]) \/ contentLines[k][i + 1] = SP})

\* the 0-based columns that are spaces in 80% or more of the content lines
gapColumns(contentLines, maxLen) ==
    {i \in 0..(maxLen - 1) :
        meetsThreshold(spaceCountAt(contentLines, i), Len(contentLines))}

isFixedWidthTable(text) ==
    LET lines == nonBlankLines(text)
        maxLen == maxLength(lines)
        contentLines == SelectSeq(lines, LAMBDA l : ~allIn(l, WhiteSpace \cup {"-", "="}))
        gaps == gapColumns(contentLines, maxLen)
        \* boundaries: one per maximal run of gap columns of width 2 or more
        boundaries == Cardinality({i \in gaps : i + 1 \in gaps /\ (i - 1) \notin gaps})
    IN  /\ Len(lines) >= MinFixedWidthLines
        /\ maxLen >= MinFixedWidthLen
        /\ Len(contentLines) >= MinContentLines
        /\ boundaries >= 1

\* l.padEnd(maxLen)
padEnd(l, n) == [i \in 1..(IF Len(l) > n THEN Len(l) ELSE n) |->
                    IF i <= Len(l) THEN l[i] ELSE SP]

\* /^[\s\-=]+$/.test(l) && /[-=]{2,}/.test(l)
isUnderline(l) ==
    /\ Len(l) > 0
    /\ allIn(l, WhiteSpace \cup {"-", "="})
    /\ \E i \in 1..(Len(l) - 1) : l[i] \in {"-", "="} /\ l[i + 1] \in {"-", "="}

\* parseFixedWidthTable cutting where a gap starts
RECURSIVE cutsLoopAtStart(_, _, _, _, _)
cutsLoopAtStart(gaps, maxLen, i, gapStart, cuts) ==
    IF i >= maxLen THEN cuts
    ELSE IF i \in gaps
    THEN cutsLoopAtStart(gaps, maxLen, i + 1, IF gapStart = -1 THEN i ELSE gapStart, cuts)
    ELSE IF gapStart # -1 /\ i - gapStart >= 2
    THEN cutsLoopAtStart(gaps, maxLen, i + 1, -1, Append(cuts, gapStart))
    ELSE cutsLoopAtStart(gaps, maxLen, i + 1, -1, cuts)

\* the cut positions, in column order: for every maximal run gapStart..i-1 of
\* gap columns that is followed by a non-gap column i and is 2 or more wide,
\* Math.floor((gapStart + i) / 2)
RECURSIVE cutsLoop(_, _, _, _, _)
cutsLoop(gaps, maxLen, i, gapStart, cuts) ==
    IF i >= maxLen THEN cuts
    ELSE IF i \in gaps
    THEN cutsLoop(gaps, maxLen, i + 1, IF gapStart = -1 THEN i ELSE gapStart, cuts)
    ELSE IF gapStart # -1 /\ i - gapStart >= MinGapWidth
    THEN cutsLoop(gaps, maxLen, i + 1, -1, Append(cuts, (gapStart + i) \div 2))
    ELSE cutsLoop(gaps, maxLen, i + 1, -1, cuts)

\* line.slice(a, b) for 0-based a and b
slice(line, a, b) == SubSeq(line, a + 1, b)

\* parseFixedWidthTable starting every later slice one column after its cut
sliceLineAfterCut(line, cuts) ==
    [k \in 1..(Len(cuts) + 1) |->
        trim(slice(line, IF k = 1 THEN 0 ELSE cuts[k - 1] + 1,
                   IF k > Len(cuts) THEN Len(line) ELSE cuts[k]))]

RECURSIVE sliceLineLoop(_, _, _, _, _)
sliceLineLoop(line, cuts, k, prev, cells) ==
    IF k > Len(cuts) THEN Append(cells, trim(slice(line, prev, Len(line))))
    ELSE sliceLineLoop(line, cuts, k + 1, cuts[k],
                       Append(cells, trim(slice(line, prev, cuts[k]))))

sliceLine(line, cuts) == sliceLineLoop(line, cuts, 1, 0, <<>>)

\* the table parseFixedWidthTable returns, as <<table>>, or <<>> for null
parseFixedWidthTable(text) ==
    LET lines == nonBlankLines(text)
        maxLen == maxLength(lines)
        padded == [i \in 1..Len(lines) |-> padEnd(lines[i], maxLen)]
        contentLines == SelectSeq(padded, LAMBDA l : ~isUnderline(l))
        cuts == cutsLoop(gapColumns(contentLines, maxLen), maxLen, 0, -1, <<>>)
        sliced == [i \in 1..Len(contentLines) |-> sliceLine(contentLines[i], cuts)]
        rows == SelectSeq(Tail(sliced), someNonEmpty)
    IN  IF Len(lines) < MinContentLines THEN <<>>
        ELSE IF Len(contentLines) < MinContentLines THEN <<>>
        ELSE IF Len(cuts) = 0 THEN <<>>
        ELSE IF Len(rows) = 0 THEN <<>>
        ELSE <<[name |-> defaultTableName(1), headers |-> sliced[1], data |-> rows]>>

----------------------------------------------------------------------------
(* JSON-array detector and parser.  JSON.parse is modelled on the JSON     *)
(* grammar without string escapes and without fraction or exponent parts   *)
(* of numbers: the inputs drawn below stay inside that fragment.           *)

JNull == [t |-> "null", n |-> 0, s |-> <<>>, items |-> <<>>, keys |-> <<>>]

JBool(b) == [t |-> "bool", n |-> IF b THEN 1 ELSE 0, s |-> <<>>, items |-> <<>>, keys |-> <<>>]

JNum(n) == [t |-> "num", n |-> n, s |-> <<>>, items |-> <<>>, keys |-> <<>>]

JStr(s) == [t |-> "str", n |-> 0, s |-> s, items |-> <<>>, keys |-> <<>>]

JArr(items) == [t |-> "arr", n |-> 0, s |-> <<>>, items |-> items, keys |-> <<>>]

\* an object: its own keys in Object.keys order, items[i] the value of keys[i]
JObj(keys, vals) == [t |-> "obj", n |-> 0, s |-> <<>>, items |-> vals, keys |-> keys]

JFail == [ok |-> FALSE, v |-> JNull, p |-> 0]

JOk(v, p) == [ok |-> TRUE, v |-> v, p |-> p]

RECURSIVE skipWs(_, _)
skipWs(t, p) == IF p <= Len(t) /\ t[p] \in WhiteSpace THEN skipWs(t, p + 1) ELSE p

\* a key that is an array index ("0", "7", "12"): Object.keys lists these first,
\* in ascending numeric order, before the other keys in insertion order
isIndexKey(k) == Len(k) > 0 /\ allIn(k, Digit) /\ (Len(k) = 1 \/ k[1] # "0")

RECURSIVE numeralValue(_)
numeralValue(k) ==
    IF Len(k) = 0 THEN 0
    ELSE 10 * numeralValue(SubSeq(k, 1, Len(k) - 1)) + DigitValue(k[Len(k)])

indexOf(seq, x) ==
    LET at == {i \in 1..Len(seq) : seq[i] = x} IN IF at = {} THEN 0 ELSE SetMin(at)

\* obj[key] = val on an object held as (keys, vals)
putMember(keys, vals, key, val) ==
    LET at == indexOf(keys, key) IN
    IF at > 0 THEN [keys |-> keys, vals |-> [vals EXCEPT ![at] = val]]
    ELSE IF isIndexKey(key)
    THEN LET before == Cardinality({i \in 1..Len(keys) :
                          isIndexKey(keys[i]) /\ numeralValue(keys[i]) < numeralValue(key)})
         IN  [keys |-> SubSeq(keys, 1, before) \o <<key>> \o SubSeq(keys, before + 1, Len(keys)),
              vals |-> SubSeq(vals, 1, before) \o <<val>> \o SubSeq(vals, before + 1, Len(vals))]
    ELSE [keys |-> Append(keys, key), vals |-> Append(vals, val)]

\* the characters of a string literal from p (just after the opening quote) up to
\* the closing quote; fails on an unterminated string or a control character
jsonString(t, p) ==
    LET closes == {q \in p..Len(t) : t[q] = QUOTE} IN
    IF closes = {} THEN JFail
    ELSE LET q == SetMin(closes) IN
         IF \E k \in p..(q - 1) : t[k] \in {NL, CR, TAB} THEN JFail
         ELSE JOk(JStr(SubSeq(t, p, q - 1)), q + 1)

\* -?(0|[1-9][0-9]*)
jsonNumber(t, p) ==
    LET neg == t[p] = "-"
        d0 == IF neg THEN p + 1 ELSE p
        ends == {q \in d0..Len(t) : t[q] \notin Digit}
        e == IF ends = {} THEN Len(t) + 1 ELSE SetMin(ends)
        digits == SubSeq(t, d0, e - 1)
    IN  IF Len(digits) = 0 \/ (Len(digits) > 1 /\ digits[1] = "0") THEN JFail
        ELSE JOk(JNum(IF neg THEN 0 - numeralValue(digits) ELSE numeralValue(digits)), e)

litAt(t, p, str) == p + Len(str) - 1 <= Len(t) /\ SubSeq(t, p, p + Len(str) - 1) = str

RECURSIVE jsonValue(_, _)
RECURSIVE jsonItems(_, _, _)
RECURSIVE jsonMembers(_, _, _, _)

jsonValue(t, p0) ==
    LET p == skipWs(t, p0) IN
    IF p > Len(t) THEN JFail
    ELSE IF t[p] = "[" THEN
        (IF skipWs(t, p + 1) <= Len(t) /\ t[skipWs(t, p + 1)] = "]"
         THEN JOk(JArr(<<>>), skipWs(t, p + 1) + 1)
         ELSE jsonItems(t, p + 1, <<>>))
    ELSE IF t[p] = "{" THEN
        (IF skipWs(t, p + 1) <= Len(t) /\ t[skipWs(t, p + 1)] = "}"
         THEN JOk(JObj(<<>>, <<>>), skipWs(t, p + 1) + 1)
         ELSE jsonMembers(t, p + 1, <<>>, <<>>))
    ELSE IF t[p] = QUOTE THEN jsonString(t, p + 1)
    ELSE IF t[p] = "-" \/ t[p] \in Digit THEN jsonNumber(t, p)
    ELSE IF litAt(t, p, <<"n", "u", "l", "l">>) THEN JOk(JNull, p + 4)
    ELSE IF litAt(t, p, <<"t", "r", "u", "e">>) THEN JOk(JBool(TRUE), p + 4)
    ELSE IF litAt(t, p, <<"f", "a", "l", "s", "e">>) THEN JOk(JBool(FALSE), p + 5)
    ELSE JFail

\* value (, value)* ]
jsonItems(t, p0, items) ==
    LET r == jsonValue(t, p0)
        p == skipWs(t, r.p)
    IN  IF ~r.ok \/ p > Len(t) THEN JFail
        ELSE IF t[p] = "," THEN jsonItems(t, p + 1, Append(items, r.v))
        ELSE IF t[p] = "]" THEN JOk(JArr(Append(items, r.v)), p + 1)
        ELSE JFail

\* "key" : value (, "key" : value)* }
jsonMembers(t, p0, keys, vals) ==
    LET pk == skipWs(t, p0)
        k == IF pk <= Len(t) /\ t[pk] = QUOTE THEN jsonString(t, pk + 1) ELSE JFail
        pc == skipWs(t, k.p)
        r == IF k.ok /\ pc <= Len(t) /\ t[pc] = ":" THEN jsonValue(t, pc + 1) ELSE JFail
        p == skipWs(t, r.p)
        m == putMember(keys, vals, k.v.s, r.v)
    IN  IF ~r.ok \/ p > Len(t) THEN JFail
        ELSE IF t[p] = "," THEN jsonMembers(t, p + 1, m.keys, m.vals)
        ELSE IF t[p] = "}" THEN JOk(JObj(m.keys, m.vals), p + 1)
        ELSE JFail

\* JSON.parse: ok is FALSE where it throws
JSONparse(t) ==
    LET r == jsonValue(t, 1) IN
    IF r.ok /\ skipWs(t, r.p) = Len(t) + 1 THEN r ELSE JFail

\* typeof obj === 'object' && obj !== null && !Array.isArray(obj)
isPlainObject(v) == v.t = "obj"

isJSONArray(text) ==
    LET trimmed == trimStart(text)
        parsed == JSONparse(trimmed)
    IN  /\ Len(trimmed) > 0 /\ trimmed[1] = "["
        /\ parsed.ok
        /\ parsed.v.t = "arr" /\ Len(parsed.v.items) > 0
        /\ isPlainObject(parsed.v.items[1])

\* String(n) of an integer
numberString(n) == IF n < 0 THEN <<"-">> \o numeral(0 - n) ELSE numeral(n)

RECURSIVE JSONstringify(_)
JSONstringify(v) ==
    CASE v.t = "null" -> <<"n", "u", "l", "l">>
      [] v.t = "bool" -> IF v.n = 1 THEN <<"t", "r", "u", "e">> ELSE <<"f", "a", "l", "s", "e">>
      [] v.t = "num" -> numberString(v.n)
      [] v.t = "str" -> <<QUOTE>> \o v.s \o <<QUOTE>>
      [] v.t = "arr" ->
            <<"[">> \o join([i \in 1..Len(v.items) |-> JSONstringify(v.items[i])], ",")
                   \o <<"]">>
      [] v.t = "obj" ->
            <<"{">> \o join([i \in 1..Len(v.keys) |->
                              <<QUOTE>> \o v.keys[i] \o <<QUOTE, ":">>
                                  \o JSONstringify(v.items[i])], ",")
                   \o <<"}">>

\* the cell for obj[h]
jsonCell(obj, h) ==
    LET at == indexOf(obj.keys, h) IN
    IF at = 0 THEN <<>>
    ELSE LET val == obj.items[at] IN
         CASE val.t = "null" -> <<>>
           [] val.t \in {"obj", "arr"} -> JSONstringify(val)
           [] val.t = "str" -> val.s
           [] OTHER -> JSONstringify(val)

\* keySet after Object.keys(obj).forEach(k => keySet.add(k)) over the elements
RECURSIVE collectKeys(_, _, _)
collectKeys(arr, i, keySet) ==
    IF i > Len(arr) THEN keySet
    ELSE IF ~isPlainObject(arr[i]) THEN collectKeys(arr, i + 1, keySet)
    ELSE collectKeys(arr, i + 1,
             keySet \o SelectSeq(arr[i].keys, LAMBDA k : indexOf(keySet, k) = 0))

jsonDataName == <<"J", "S", "O", "N", SP, "D", "a", "t", "a">>

parseJSONArray(text) ==
    LET arr == JSONparse(trimStart(text)).v.items
        hdrs == collectKeys(arr, 1, <<>>)
        objs == SelectSeq(arr, isPlainObject)
    IN  [name |-> jsonDataName, headers |-> hdrs,
         data |-> [i \in 1..Len(objs) |-> [j \in 1..Len(hdrs) |-> jsonCell(objs[i], hdrs[j])]]]

----------------------------------------------------------------------------
(* Table-set reconciler and view selection *)

\* seen extended by the headers of hs not yet in it, in order
RECURSIVE addUnseen(_, _)
addUnseen(hs, seen) ==
    IF Len(hs) = 0 THEN seen
    ELSE addUnseen(Tail(hs),
                   IF indexOf(seen, Head(hs)) = 0 THEN Append(seen, Head(hs)) ELSE seen)

RECURSIVE unionHeaders(_, _, _)
unionHeaders(tbls, k, allHeaders) ==
    IF k > Len(tbls) THEN allHeaders
    ELSE unionHeaders(tbls, k + 1, addUnseen(tbls[k].headers, allHeaders))

\* getCommonHeaders recomputing the union whatever the tables are
getCommonHeadersUnion(tbls) == unionHeaders(tbls, 1, <<>>)

getCommonHeaders(tbls) ==
    IF Len(tbls) = 0 THEN <<>>
    ELSE LET firstHeaders == tbls[1].headers
             allSame == \A k \in 1..Len(tbls) :
                           /\ Len(tbls[k].headers) = Len(firstHeaders)
                           /\ \A i \in 1..Len(firstHeaders) :
                                 tbls[k].headers[i] = firstHeaders[i]
         IN  IF allSame THEN firstHeaders ELSE unionHeaders(tbls, 1, <<>>)

\* tableHeaders.forEach((header, i) => ...) from the i-th header on
RECURSIVE padLoop(_, _, _, _, _)
padLoop(row, tableHeaders, commonHeaders, i, result) ==
    IF i > Len(tableHeaders) THEN result
    ELSE LET commonIndex == indexOf(commonHeaders, tableHeaders[i]) IN
         padLoop(row, tableHeaders, commonHeaders, i + 1,
                 IF commonIndex # 0 /\ i <= Len(row)
                 THEN [result EXCEPT ![commonIndex] = row[i]] ELSE result)

\* padRowToHeaders handing the row back as it is
padRowUnpadded(row, tableHeaders, tbls) == row

padRowToHeaders(row, tableHeaders, tbls) ==
    LET commonHeaders == getCommonHeaders(tbls) IN
    padLoop(row, tableHeaders, commonHeaders, 1, [i \in 1..Len(commonHeaders) |-> <<>>])

\* this.data of the All Tables view: [table.name, ...paddedRow] per table and row
RECURSIVE allTablesRows(_, _)
allTablesRows(tbls, k) ==
    IF k > Len(tbls) THEN <<>>
    ELSE [i \in 1..Len(tbls[k].data) |->
             <<tbls[k].name>> \o padRowToHeaders(tbls[k].data[i], tbls[k].headers, tbls)]
         \o allTablesRows(tbls, k + 1)

\* an index argument: parseInt of the selector value, NaN or an integer
NaNIndex == [nan |-> TRUE, n |-> 0]

IntIndex(k) == [nan |-> FALSE, n |-> k]

\* index === -1
isAllTables(index) == ~index.nan /\ index.n = -1

\* the range check of switchToTable passed by NaN as by 0
isTableIndexNaN(index, tbls) == index.n >= 0 /\ index.n < Len(tbls)

\* index >= 0 && index < this.tables.length
isTableIndex(index, tbls) == ~index.nan /\ index.n >= 0 /\ index.n < Len(tbls)

NoSort == -1

\* switchToTable reusing the rows on display when the table is selected already
switchResultKeepsView(index, tbls) ==
    IF isAllTables(index)
    THEN [currentTableIndex |-> -1,
          headers |-> <<tableWord>> \o getCommonHeaders(tbls),
          data |-> allTablesRows(tbls, 1)]
    ELSE [currentTableIndex |-> index.n,
          headers |-> tbls[index.n + 1].headers,
          data |-> IF index.n = currentTableIndex THEN filteredData
                   ELSE tbls[index.n + 1].data]

\* the fields switchToTable assigns, for an index on which it acts
switchResult(index, tbls) ==
    IF isAllTables(index)
    THEN [currentTableIndex |-> -1,
          headers |-> <<tableWord>> \o getCommonHeaders(tbls),
          data |-> allTablesRows(tbls, 1)]
    ELSE [currentTableIndex |-> index.n,
          headers |-> tbls[index.n + 1].headers,
          data |-> tbls[index.n + 1].data]

----------------------------------------------------------------------------
(* Sort and filter *)

\* parseFloat on strings without fraction, exponent or Infinity: leading white
\* space, an optional sign and the longest run of digits; NaN without a digit
parseFloat(s) ==
    LET t == trimStart(s)
        signed == Len(t) > 0 /\ t[1] \in {"+", "-"}
        u == IF signed THEN Tail(t) ELSE t
        stops == {i \in 1..Len(u) : u[i] \notin Digit}
        digits == IF stops = {} THEN u ELSE SubSeq(u, 1, SetMin(stops) - 1)
    IN  IF Len(digits) = 0 THEN [nan |-> TRUE, n |-> 0]
        ELSE [nan |-> FALSE,
              n |-> IF signed /\ t[1] = "-" THEN 0 - numeralValue(digits)
                    ELSE numeralValue(digits)]

\* valA < valB on strings: by UTF-16 code units, a proper prefix first
RECURSIVE stringLess(_, _)
stringLess(a, b) ==
    IF Len(b) = 0 THEN FALSE
    ELSE IF Len(a) = 0 THEN TRUE
    ELSE IF CharCode(a[1]) # CharCode(b[1]) THEN CharCode(a[1]) < CharCode(b[1])
    ELSE stringLess(Tail(a), Tail(b))

\* a[columnIndex] || '' for a 0-based columnIndex
cellOr(row, columnIndex) ==
    IF columnIndex >= 0 /\ columnIndex < Len(row) THEN row[columnIndex + 1] ELSE <<>>

\* the comparator of sortTable without its numeric branch
compareRowsLexical(a, b, columnIndex, direction) ==
    LET lowA == toLowerCase(cellOr(a, columnIndex))
        lowB == toLowerCase(cellOr(b, columnIndex))
    IN  IF stringLess(lowA, lowB) THEN (IF direction = "asc" THEN -1 ELSE 1)
        ELSE IF stringLess(lowB, lowA) THEN (IF direction = "asc" THEN 1 ELSE -1)
        ELSE 0

\* the comparator of sortTable: negative, zero or positive
compareRows(a, b, columnIndex, direction) ==
    LET valA == cellOr(a, columnIndex)
        valB == cellOr(b, columnIndex)
        numA == parseFloat(valA)
        numB == parseFloat(valB)
        lowA == toLowerCase(valA)
        lowB == toLowerCase(valB)
    IN  IF ~numA.nan /\ ~numB.nan
        THEN (IF direction = "asc" THEN numA.n - numB.n ELSE numB.n - numA.n)
        ELSE IF stringLess(lowA, lowB) THEN (IF direction = "asc" THEN -1 ELSE 1)
        ELSE IF stringLess(lowB, lowA) THEN (IF direction = "asc" THEN 1 ELSE -1)
        ELSE 0

\* the comparator orders the rows consistently: a strict weak order on them
consistentOn(rows, columnIndex, direction) ==
    LET S == {rows[i] : i \in 1..Len(rows)}
        c(a, b) == compareRows(a, b, columnIndex, direction)
    IN  /\ \A a, b \in S : (c(a, b) < 0) = (c(b, a) > 0)
        /\ \A a, b, d \in S : c(a, b) < 0 /\ c(b, d) < 0 => c(a, d) < 0
        /\ \A a, b, d \in S : c(a, b) = 0 /\ c(b, d) = 0 => c(a, d) = 0

\* x placed after the last element of sorted that does not sort after it
RECURSIVE insertStable(_, _, _, _)
insertStable(sorted, x, columnIndex, direction) ==
    IF Len(sorted) = 0 THEN <<x>>
    ELSE IF compareRows(x, sorted[1], columnIndex, direction) < 0
    THEN <<x>> \o sorted
    ELSE <<sorted[1]>> \o insertStable(Tail(sorted), x, columnIndex, direction)

RECURSIVE stableSort(_, _, _, _)
stableSort(rows, k, columnIndex, direction) ==
    IF k = 0 THEN <<>>
    ELSE insertStable(stableSort(rows, k - 1, columnIndex, direction), rows[k],
                      columnIndex, direction)

permutationsOf(rows) ==
    {[i \in 1..Len(rows) |-> rows[f[i]]] : f \in Permutations(1..Len(rows))}

\* what Array.prototype.sort may leave in the array: the stable sort under a
\* consistent comparator, an implementation-defined order of the same
\* elements otherwise
sortOutcomes(rows, columnIndex, direction) ==
    IF consistentOn(rows, columnIndex, direction)
    THEN {stableSort(rows, Len(rows), columnIndex, direction)}
    ELSE permutationsOf(rows)

\* row.some(cell => cell.toLowerCase().includes(searchTerm))
rowMatches(row, lowTerm) ==
    \E i \in 1..Len(row) : includes(toLowerCase(row[i]), lowTerm)

\* the rows filterTable keeps for the search box value term
filterRows(rows, term) ==
    LET lowTerm == toLowerCase(term) IN
    IF Len(lowTerm) = 0 THEN rows
    ELSE SelectSeq(rows, LAMBDA row : rowMatches(row, lowTerm))

----------------------------------------------------------------------------
(* Exports: CSV, JSON and rich HTML *)

\* cell.replace(/"/g, '""')
RECURSIVE doubleQuotes(_)
doubleQuotes(cell) ==
    IF Len(cell) = 0 THEN <<>>
    ELSE (IF Head(cell) = QUOTE THEN <<QUOTE, QUOTE>> ELSE <<Head(cell)>>)
         \o doubleQuotes(Tail(cell))

escape(cell) ==
    IF includes(cell, <<",">>) \/ includes(cell, <<QUOTE>>) \/ includes(cell, <<NL>>)
    THEN <<QUOTE>> \o doubleQuotes(cell) \o <<QUOTE>>
    ELSE cell

\* dataToCSV over this.headers = hdrs and this.filteredData = rows
dataToCSV(hdrs, rows) ==
    LET line(row) == join([i \in 1..Len(row) |-> escape(row[i])], ",")
    IN  join(<<line(hdrs)>> \o [i \in 1..Len(rows) |-> line(rows[i])], NL)

\* the value of obj[header] = row[i] when row has no cell i
JUndefined == [t |-> "undefined", n |-> 0, s |-> <<>>, items |-> <<>>, keys |-> <<>>]

\* this.headers.forEach((header, i) => { obj[header] = row[i] }) from header i on
RECURSIVE exportObject(_, _, _, _, _)
exportObject(hdrs, row, i, keys, vals) ==
    IF i > Len(hdrs) THEN JObj(keys, vals)
    ELSE LET m == putMember(keys, vals, hdrs[i],
                            IF i <= Len(row) THEN JStr(row[i]) ELSE JUndefined)
         IN  exportObject(hdrs, row, i + 1, m.keys, m.vals)

\* the array exportJSON hands to JSON.stringify, over this.headers = hdrs and
\* this.filteredData = rows
exportJSON(hdrs, rows) == [i \in 1..Len(rows) |-> exportObject(hdrs, rows[i], 1, <<>>, <<>>)]

\* generateSingleTableHTML: the title, the th cells and the td cells by tr, as
\* they stand before escapeHtml; no title is ''
generateSingleTableHTML(hdrs, rows, tableName) ==
    [title |-> tableName, headerRow |-> hdrs, dataRows |-> rows]

\* generateMultiTableHTML: one table per element of this.tables
generateMultiTableHTML(tbls) ==
    [k \in 1..Len(tbls) |-> generateSingleTableHTML(tbls[k].headers, tbls[k].data, tbls[k].name)]

\* generateRichHTML over the fields of the object: the tables it writes
generateRichHTML(tbls, index, hdrs, rows) ==
    IF Len(tbls) > 1 /\ index = -1 THEN generateMultiTableHTML(tbls)
    ELSE <<generateSingleTableHTML(hdrs, rows, <<>>)>>

----------------------------------------------------------------------------
(* The inputs: the texts pasted into the text area and the files dropped   *)

\* delimited text: 'a,b\n1,2\n3,4'
PasteCsv ==
    <<"a", ",", "b", NL, "1", ",", "2", NL, "3", ",", "4">>

\* one ASCII box table, a numeric and a text column: '+--+-+\n|n |k|\n+--+-+\n|10|a|\n|9 |B|\n|2 |a|\n+--+-+'
PasteBox ==
    <<"+", "-", "-", "+", "-", "+", NL, "|", "n", SP, "|", "k", "|", NL, "+", "-", "-",
      "+", "-", "+", NL, "|", "1", "0", "|", "a", "|", NL, "|", "9", SP, "|", "B", "|",
      NL, "|", "2", SP, "|", "a", "|", NL, "+", "-", "-", "+", "-", "+">>

\* two named tables with different headers: '==\nTABLE: x\n|a|b|\n|1|2|\n==\nTABLE: y\n|b|c|\n|3|4|\n|5|6|'
PasteTwoNamed ==
    <<"=", "=", NL, "T", "A", "B", "L", "E", ":", SP, "x", NL, "|", "a", "|", "b", "|",
      NL, "|", "1", "|", "2", "|", NL, "=", "=", NL, "T", "A", "B", "L", "E", ":", SP,
      "y", NL, "|", "b", "|", "c", "|", NL, "|", "3", "|", "4", "|", NL, "|", "5", "|",
      "6", "|">>

\* two named tables with the same headers: '==\nTABLE: x\n|a|\n|1|\nTABLE: y\n|a|\n|2|'
PasteTwoSame ==
    <<"=", "=", NL, "T", "A", "B", "L", "E", ":", SP, "x", NL, "|", "a", "|", NL, "|",
      "1", "|", NL, "T", "A", "B", "L", "E", ":", SP, "y", NL, "|", "a", "|", NL, "|",
      "2", "|">>

\* one Markdown table: '| a | b |\n|---|---|\n| 1 | 2 |'
PasteMarkdown ==
    <<"|", SP, "a", SP, "|", SP, "b", SP, "|", NL, "|", "-", "-", "-", "|", "-", "-",
      "-", "|", NL, "|", SP, "1", SP, "|", SP, "2", SP, "|">>

\* two Markdown tables in two blocks: 'a|b\n--|--\n2|B\n1|a\n\nc|d\n--|--\n3|4'
PasteTwoMarkdown ==
    <<"a", "|", "b", NL, "-", "-", "|", "-", "-", NL, "2", "|", "B", NL, "1", "|", "a",
      NL, NL, "c", "|", "d", NL, "-", "-", "|", "-", "-", NL, "3", "|", "4">>

\* an ASCII border line above a Markdown table without outer pipes: '+--+\na | b\n--- | ---\n1 | 2'
PasteBorderThenMarkdown ==
    <<"+", "-", "-", "+", NL, "a", SP, "|", SP, "b", NL, "-", "-", "-", SP, "|", SP,
      "-", "-", "-", NL, "1", SP, "|", SP, "2">>

\* a box table whose second data line is a Markdown separator: '+--+\n|a|b|\n|--|--|\n|1|2|'
PasteBoxAndMarkdown ==
    <<"+", "-", "-", "+", NL, "|", "a", "|", "b", "|", NL, "|", "-", "-", "|", "-",
      "-", "|", NL, "|", "1", "|", "2", "|">>

\* one Unicode box table: '┌─┬─┐\n│a│b│\n├─┼─┤\n│1│2│\n└─┴─┘'
PasteUnicode ==
    <<BoxTL, BoxH, BoxT, BoxH, BoxTR, NL, BoxV, "a", BoxV, "b", BoxV, NL, BoxL, BoxH,
      BoxX, BoxH, BoxR, NL, BoxV, "1", BoxV, "2", BoxV, NL, BoxBL, BoxH, BoxB, BoxH,
      BoxBR>>

\* a box table with a header line and no data line: '+-+\n|a|'
PasteHeaderOnly ==
    <<"+", "-", "+", NL, "|", "a", "|">>

\* a JSON array of objects: '[{"a":1},{"a":2,"b":3}]'
PasteJson ==
    <<"[", "{", QUOTE, "a", QUOTE, ":", "1", "}", ",", "{", QUOTE, "a", QUOTE, ":",
      "2", ",", QUOTE, "b", QUOTE, ":", "3", "}", "]">>

\* a space-aligned table: 'Name   Age\nAlice  30\nBob    25'
PasteFixed ==
    <<"N", "a", "m", "e", SP, SP, SP, "A", "g", "e", NL, "A", "l", "i", "c", "e", SP,
      SP, "3", "0", NL, "B", "o", "b", SP, SP, SP, SP, "2", "5">>

\* a lone delimiter: no detector matches and no row survives: ','
PasteComma ==
    <<",">>

\* white space only: '  \n '
PasteBlank ==
    <<SP, SP, NL, SP>>

\* a box table whose row is shorter than its header: '+--+\n|a|b|\n|1|'
PasteRagged ==
    <<"+", "-", "-", "+", NL, "|", "a", "|", "b", "|", NL, "|", "1", "|">>

\* a Markdown table whose row is shorter than its header: '|a|b|\n|-|-|\n|1|'
PasteRaggedMarkdown ==
    <<"|", "a", "|", "b", "|", NL, "|", "-", "|", "-", "|", NL, "|", "1", "|">>

PasteTexts ==
    {PasteCsv, PasteBox, PasteTwoNamed, PasteTwoSame,
     PasteMarkdown, PasteTwoMarkdown, PasteBorderThenMarkdown, PasteBoxAndMarkdown,
     PasteUnicode, PasteHeaderOnly, PasteJson, PasteFixed,
     PasteComma, PasteBlank, PasteRagged, PasteRaggedMarkdown}

\* a comma-separated file: 'a,b\n1,2'
FileCsv ==
    <<"a", ",", "b", NL, "1", ",", "2">>

\* a semicolon-separated file with CRLF line ends: 'x;y\r\n3;4\r\nB;1\r\n'
FileSemicolon ==
    <<"x", ";", "y", CR, NL, "3", ";", "4", CR, NL, "B", ";", "1", CR, NL>>

\* a file without any cell: '\n'
FileEmpty ==
    <<NL>>

FileTexts == {FileCsv, FileSemicolon, FileEmpty}

\* the files of the document sessions
DocFiles == {FileCsv, FileEmpty}

\* the pastes of the document sessions
DocTexts == {PasteCsv, PasteBox, PasteTwoNamed, PasteComma, PasteBlank}

\* the values of the delimiter selector; "\\t" is the two characters \ and t
DelimiterOptions == {"auto", ",", ";", "\\t", "|"}

\* what the user may have typed into the search box
SearchTerms == {<<>>, <<"a">>, <<"B">>}

MaxPending == 1

IndexSlack == 1

\* the arguments switchToTable is called with: NaN, -1, the table indices and
\* IndexSlack integers beyond either end
IndexArgs(tbls) ==
    {NaNIndex} \cup {IntIndex(k) : k \in (-1 - IndexSlack)..(Len(tbls) - 1 + IndexSlack)}

----------------------------------------------------------------------------
(* formatFromText, up to the assignment of the state *)

\* formatFromText's dispatch with the Markdown check ahead of the box-table check
classifyMarkdownFirst(text, delimiterOption) ==
    IF isMarkdownTable(text) /\ Len(parseMarkdownTable(text)) > 0
    THEN [by |-> "markdown", tables |-> parseMarkdownTable(text), rows |-> <<>>]
    ELSE IF isDatabricksFormat(text) /\ Len(parseDatabricksFormat(text)) > 0
    THEN [by |-> "box", tables |-> parseDatabricksFormat(text), rows |-> <<>>]
    ELSE IF isJSONArray(text)
    THEN [by |-> "json", tables |-> <<parseJSONArray(text)>>, rows |-> <<>>]
    ELSE IF isFixedWidthTable(text) /\ Len(parseFixedWidthTable(text)) > 0
    THEN [by |-> "fixed", tables |-> parseFixedWidthTable(text), rows |-> <<>>]
    ELSE LET delimiter == IF delimiterOption = "auto" THEN detectDelimiter(text)
                          ELSE IF delimiterOption = "\\t" THEN TAB
                          ELSE delimiterOption
         IN  [by |-> "csv", tables |-> <<>>, rows |-> parseCSV(text, delimiter)]

\* the parser whose output formatFromText installs for the trimmed text, with
\* the tables (table formats) or the rows (delimited fallback) it produced
classify(text, delimiterOption) ==
    IF isDatabricksFormat(text) /\ Len(parseDatabricksFormat(text)) > 0
    THEN [by |-> "box", tables |-> parseDatabricksFormat(text), rows |-> <<>>]
    ELSE IF isMarkdownTable(text) /\ Len(parseMarkdownTable(text)) > 0
    THEN [by |-> "markdown", tables |-> parseMarkdownTable(text), rows |-> <<>>]
    ELSE IF isJSONArray(text)
    THEN [by |-> "json", tables |-> <<parseJSONArray(text)>>, rows |-> <<>>]
    ELSE IF isFixedWidthTable(text) /\ Len(parseFixedWidthTable(text)) > 0
    THEN [by |-> "fixed", tables |-> parseFixedWidthTable(text), rows |-> <<>>]
    ELSE LET delimiter == IF delimiterOption = "auto" THEN detectDelimiter(text)
                          ELSE IF delimiterOption = "\\t" THEN TAB
                          ELSE delimiterOption
         IN  [by |-> "csv", tables |-> <<>>, rows |-> parseCSV(text, delimiter)]

\* classify over the inputs, evaluated once
formatOutcome ==
    [raw \in PasteTexts |-> [d \in DelimiterOptions |-> classify(trim(raw), d)]]

\* reader.onload up to processData: the rows of a file's text
fileRows == [text \in FileTexts |-> parseCSV(text, detectDelimiter(text))]

ToastEnter == "Please enter some data first"

ToastNoData == "No data found"

ToastRows == "Loaded rows"

\* the toast of a table load, by the parser that produced the tables
ToastLoaded(by) ==
    CASE by = "box" -> "Loaded table(s)"
      [] by = "markdown" -> "Loaded Markdown table(s)"
      [] by = "json" -> "Loaded JSON data"
      [] by = "fixed" -> "Loaded fixed-width table"

----------------------------------------------------------------------------
(* State machine *)

Canonical(h, d, f, sc, sd) ==
    [set |-> TRUE, headers |-> h, data |-> d, filteredData |-> f,
     sortColumn |-> sc, sortDirection |-> sd]

NoSnap ==
    [set |-> FALSE, headers |-> <<>>, data |-> <<>>, filteredData |-> <<>>,
     sortColumn |-> NoSort, sortDirection |-> "asc"]

\* a handler run: its name, the text it read (formatFromText: the value of the
\* text area), the index it was called with (switchToTable), whether it changed
\* the document state, and, for switchToTable, whether the index had been
\* selected before over the same tables
Op(name, text, index, acted, again) ==
    [op |-> name, text |-> text, index |-> index, acted |-> acted, again |-> again]

MaxSteps == 4

\* one more handler runs
Step == steps < MaxSteps /\ steps' = steps + 1 /\ UNCHANGED <<call, returned>>

\* the fields after the constructor
Constructed ==
    /\ headers = <<>>
    /\ data = <<>>
    /\ filteredData = <<>>
    /\ sortColumn = NoSort
    /\ sortDirection = "asc"
    /\ tables = <<>>
    /\ currentTableIndex = 0
    /\ searchTerm = <<>>
    /\ pending = <<>>
    /\ toast = ""
    /\ lastOp = Op("constructor", <<>>, IntIndex(0), FALSE, FALSE)
    /\ steps = 0
    /\ resorted = FALSE
    /\ selSnap = <<>>

\* no method is called on its own
NoCall == [fn |-> "none", done |-> FALSE]

Init == Constructed /\ call = NoCall /\ returned = <<>>

\* switchToTable without the reset of sortColumn
switchEffectKeepsSort(index, tbls, snaps) ==
    LET r == switchResult(index, tbls) IN
    /\ currentTableIndex' = r.currentTableIndex
    /\ headers' = r.headers
    /\ data' = r.data
    /\ filteredData' = r.data
    /\ UNCHANGED <<sortColumn, sortDirection>>
    /\ resorted' = FALSE
    /\ selSnap' = IF isAllTables(index) \/ snaps[index.n + 1].set THEN snaps
                  ELSE [snaps EXCEPT ![index.n + 1] =
                           Canonical(r.headers, r.data, r.data, sortColumn, sortDirection)]

\* the body of switchToTable for an index on which it acts, over this.tables =
\* tbls; snaps is selSnap as the caller leaves it
switchEffect(index, tbls, snaps) ==
    LET r == switchResult(index, tbls) IN
    /\ currentTableIndex' = r.currentTableIndex
    /\ headers' = r.headers
    /\ data' = r.data
    /\ filteredData' = r.data
    /\ sortColumn' = NoSort
    /\ UNCHANGED sortDirection
    /\ resorted' = FALSE
    /\ selSnap' = IF isAllTables(index) \/ snaps[index.n + 1].set THEN snaps
                  ELSE [snaps EXCEPT ![index.n + 1] =
                           Canonical(r.headers, r.data, r.data, NoSort, sortDirection)]

SwitchToTable(index) ==
    /\ Step
    /\ lastOp' = Op("switchToTable", <<>>, index,
                    isAllTables(index) \/ isTableIndex(index, tables),
                    isTableIndex(index, tables) /\ selSnap[index.n + 1].set)
    /\ UNCHANGED <<tables, searchTerm, pending, toast>>
    /\ IF isAllTables(index) \/ isTableIndex(index, tables)
       THEN switchEffect(index, tables, selSnap)
       ELSE UNCHANGED <<currentTableIndex, headers, data, filteredData, sortColumn,
                        sortDirection, resorted, selSnap>>

\* processData(rows); checked is this.firstRowHeader.checked
processData(rows, checked) ==
    IF Len(rows) = 0
    THEN /\ toast' = ToastNoData
         /\ UNCHANGED <<headers, data, filteredData, sortColumn, sortDirection,
                         currentTableIndex, resorted>>
    ELSE LET r == processDataResult(rows, checked) IN
         /\ headers' = r.headers
         /\ data' = r.data
         /\ filteredData' = r.data
         /\ sortColumn' = NoSort
         /\ toast' = ToastRows
         /\ resorted' = FALSE
         /\ UNCHANGED <<sortDirection, currentTableIndex>>

\* the view formatFromText selects for the tables a parser returned
defaultView(r) ==
    IF r.by \in {"box", "markdown"} /\ Len(r.tables) > 1 THEN IntIndex(-1)
    ELSE IntIndex(0)

\* formatFromText on a non-blank text classified as r
formatLoaded(raw, r, checked) ==
    IF r.by # "csv"
    THEN /\ tables' = r.tables
         /\ switchEffect(defaultView(r), r.tables, [k \in 1..Len(r.tables) |-> NoSnap])
         /\ toast' = ToastLoaded(r.by)
         /\ lastOp' = Op("formatFromText", raw, IntIndex(0), TRUE, FALSE)
    ELSE /\ tables' = <<>>
         /\ selSnap' = <<>>
         /\ processData(r.rows, checked)
         /\ lastOp' = Op("formatFromText", raw, IntIndex(0), Len(r.rows) > 0, FALSE)

FormatFromText(raw, delimiterOption, checked) ==
    /\ Step
    /\ UNCHANGED <<searchTerm, pending>>
    /\ IF Len(trim(raw)) = 0
       THEN /\ toast' = ToastEnter
            /\ lastOp' = Op("formatFromText", raw, IntIndex(0), FALSE, FALSE)
            /\ UNCHANGED <<headers, data, filteredData, sortColumn, sortDirection,
                            tables, currentTableIndex, resorted, selSnap>>
       ELSE \E r \in {formatOutcome[raw][delimiterOption]} : formatLoaded(raw, r, checked)

\* processFile: starts the read; reader.onload runs when the read completes
ProcessFile(text) ==
    /\ Step
    /\ Len(pending) < MaxPending
    /\ pending' = Append(pending, text)
    /\ lastOp' = Op("processFile", <<>>, IntIndex(0), FALSE, FALSE)
    /\ UNCHANGED <<headers, data, filteredData, sortColumn, sortDirection, tables,
                    currentTableIndex, searchTerm, toast, resorted, selSnap>>

\* reader.onload of the k-th read in flight
ReadComplete(k, checked) ==
    /\ Step
    /\ k \in 1..Len(pending)
    /\ pending' = SubSeq(pending, 1, k - 1) \o SubSeq(pending, k + 1, Len(pending))
    /\ \E rows \in {fileRows[pending[k]]} :
          /\ processData(rows, checked)
          /\ lastOp' = Op("onload", <<>>, IntIndex(0), Len(rows) > 0, FALSE)
    /\ UNCHANGED <<tables, searchTerm, selSnap>>

\* the direction sortTable(columnIndex) sets
\* sortTable flipping the direction whatever the column is
nextDirectionFlipped(columnIndex) == IF sortDirection = "asc" THEN "desc" ELSE "asc"

nextDirection(columnIndex) ==
    IF sortColumn = columnIndex
    THEN (IF sortDirection = "asc" THEN "desc" ELSE "asc")
    ELSE "asc"

\* sortTable with filteredData sharing the array of data (and of the selected
\* table): the sort reorders them too
SortTableShared(columnIndex) ==
    /\ Step
    /\ sortColumn' = columnIndex
    /\ sortDirection' = nextDirection(columnIndex)
    /\ filteredData' \in sortOutcomes(filteredData, columnIndex, nextDirection(columnIndex))
    /\ data' = filteredData'
    /\ tables' = IF currentTableIndex >= 0 /\ currentTableIndex < Len(tables)
                 THEN [tables EXCEPT ![currentTableIndex + 1].data = filteredData']
                 ELSE tables
    /\ resorted' = TRUE
    /\ lastOp' = Op("sortTable", <<>>, IntIndex(0), TRUE, FALSE)
    /\ UNCHANGED <<headers, currentTableIndex, searchTerm, pending, toast, selSnap>>

SortTable(columnIndex) ==
    /\ Step
    /\ sortColumn' = columnIndex
    /\ sortDirection' = nextDirection(columnIndex)
    /\ filteredData' \in sortOutcomes(filteredData, columnIndex, nextDirection(columnIndex))
    /\ resorted' = TRUE
    /\ lastOp' = Op("sortTable", <<>>, IntIndex(0), TRUE, FALSE)
    /\ UNCHANGED <<headers, data, tables, currentTableIndex, searchTerm, pending, toast,
                    selSnap>>

\* filterTable narrowing the rows on display instead of data
FilterTableOfView(term) ==
    /\ Step
    /\ searchTerm' = term
    /\ filteredData' = filterRows(filteredData, term)
    /\ resorted' = FALSE
    /\ lastOp' = Op("filterTable", <<>>, IntIndex(0), TRUE, FALSE)
    /\ UNCHANGED <<headers, data, sortColumn, sortDirection, tables, currentTableIndex,
                    pending, toast, selSnap>>

\* the input event of the search box, after the user made its value term
FilterTable(term) ==
    /\ Step
    /\ searchTerm' = term
    /\ filteredData' = filterRows(data, term)
    /\ resorted' = FALSE
    /\ lastOp' = Op("filterTable", <<>>, IntIndex(0), TRUE, FALSE)
    /\ UNCHANGED <<headers, data, sortColumn, sortDirection, tables, currentTableIndex,
                    pending, toast, selSnap>>

\* a document session: pastes with the selector on "auto", uploads, view
\* selection, sorting and searching
Next ==
    \/ \E raw \in DocTexts, checked \in BOOLEAN : FormatFromText(raw, "auto", checked)
    \/ \E text \in DocFiles : ProcessFile(text)
    \/ \E k \in 1..Len(pending), checked \in BOOLEAN : ReadComplete(k, checked)
    \/ \E index \in IndexArgs(tables) : SwitchToTable(index)
    \/ \E columnIndex \in 0..(Len(headers) - 1) : SortTable(columnIndex)
    \/ \E term \in SearchTerms : FilterTable(term)

Spec == Init /\ [][Next]_vars

MaxPastes == 3

\* a paste session: every text under every delimiter option
PasteNext ==
    /\ steps < MaxPastes
    /\ \E raw \in PasteTexts, d \in DelimiterOptions, checked \in BOOLEAN :
          FormatFromText(raw, d, checked)

PasteSpec == Init /\ [][PasteNext]_vars

----------------------------------------------------------------------------
(* Methods called on their own: the arguments are drawn from bounded sets   *)
(* when the object is constructed and one step applies the method to them.  *)

\* the fields of the object
fields == <<headers, data, filteredData, sortColumn, sortDirection, tables,
            currentTableIndex, searchTerm, pending, toast, lastOp, steps,
            resorted, selSnap>>

\* the call of method fn has returned
called(fn) == call.fn = fn /\ call.done

\* the call of method fn returns value
Return(fn, value) ==
    /\ call.fn = fn /\ ~call.done
    /\ call' = [call EXCEPT !.done = TRUE]
    /\ returned' = value
    /\ UNCHANGED fields

\* header lists of the tables: one or two names, duplicates included
HeaderNames == {<<"a">>, <<"b">>, <<"c">>}
HeaderLists == {<<h>> : h \in HeaderNames} \cup {<<g, h>> : g, h \in HeaderNames}

\* the k-th table with the header list hs and one row of distinct cells
tableOf(k, hs) ==
    [name |-> <<"t">> \o numeral(k), headers |-> hs,
     data |-> <<[i \in 1..Len(hs) |-> numeral(k) \o numeral(i)]>>]

MaxTables == 2

RECURSIVE TableSetsOf(_)
TableSetsOf(n) ==
    IF n = 0 THEN {<<>>}
    ELSE {Append(t, tableOf(n, hs)) : t \in TableSetsOf(n - 1), hs \in HeaderLists}

TableSets == UNION {TableSetsOf(n) : n \in 0..MaxTables}

ReconcilerCalls ==
    {[fn |-> "getCommonHeaders", done |-> FALSE, tbls |-> t] : t \in TableSets}
    \cup {[fn |-> "padRowToHeaders", done |-> FALSE, tbls |-> t, k |-> k] :
             t \in TableSets \ {<<>>}, k \in 1..MaxTables}

CallGetCommonHeaders ==
    /\ call.fn = "getCommonHeaders"
    /\ \E r \in {getCommonHeaders(call.tbls)} : Return("getCommonHeaders", r)

CallPadRowToHeaders ==
    /\ call.fn = "padRowToHeaders"
    /\ call.k <= Len(call.tbls)
    /\ \E r \in {padRowToHeaders(call.tbls[call.k].data[1],
                                 call.tbls[call.k].headers, call.tbls)} :
          Return("padRowToHeaders", r)

\* cells to write: plain, padded with a blank, and holding the characters the
\* writer and the parser treat specially
CsvCells ==
    {<<>>, <<"a">>, <<SP, "a">>, <<"a", ",", "b">>, <<QUOTE, "a">>,
     <<"a", NL, "b">>, <<"a", CR, "b">>}

MaxCsvRows == 2

RECURSIVE RowListsOf(_, _)
RowListsOf(rowSet, n) ==
    IF n = 0 THEN {<<>>}
    ELSE {Append(rows, row) : rows \in RowListsOf(rowSet, n - 1), row \in rowSet}

\* documents of one column, and of two columns with one row
CsvDocuments ==
    {[headers |-> <<h>>, rows |-> rows] :
        h \in CsvCells,
        rows \in UNION {RowListsOf({<<c>> : c \in CsvCells}, n) : n \in 0..MaxCsvRows}}
    \cup {[headers |-> <<<<"h">>, <<"g">>>>, rows |-> <<<<c, d>>>>] : c, d \in CsvCells}

WriterCalls ==
    {[fn |-> "dataToCSV", done |-> FALSE, headers |-> doc.headers, rows |-> doc.rows] :
        doc \in CsvDocuments}

CallDataToCSV ==
    /\ call.fn = "dataToCSV"
    /\ \E r \in {dataToCSV(call.headers, call.rows)} : Return("dataToCSV", r)

\* texts to parse: every string of up to MaxCsvLen of these characters
CsvAlphabet == {QUOTE, ",", NL, CR, "a", SP}

MaxCsvLen == 4

RECURSIVE StringsOf(_, _)
StringsOf(alphabet, n) ==
    IF n = 0 THEN {<<>>}
    ELSE {Append(t, c) : t \in StringsOf(alphabet, n - 1), c \in alphabet}

CsvTexts == UNION {StringsOf(CsvAlphabet, n) : n \in 0..MaxCsvLen}

\* the comma, and a delimiter for which the comma is cell text
CsvDelimiters == {",", ";"}

ParserCalls ==
    {[fn |-> "parseCSV", done |-> FALSE, text |-> t, delimiter |-> d] :
        t \in CsvTexts, d \in CsvDelimiters}

CallParseCSV ==
    /\ call.fn = "parseCSV"
    /\ \E r \in {parseCSV(call.text, call.delimiter)} : Return("parseCSV", r)

\* texts to detect the delimiter of: up to MaxTextLines lines, each blank or
\* holding one candidate.  The code scores in IEEE doubles and the model in
\* exact fractions; on these texts every comparison of two scores comes out
\* the same in both.
DetectLines == {<<>>, <<";">>, <<",">>}

MaxTextLines == 6

RECURSIVE LineListsOf(_, _)
LineListsOf(lineSet, n) ==
    IF n = 0 THEN {<<>>}
    ELSE {Append(ls, l) : ls \in LineListsOf(lineSet, n - 1), l \in lineSet}

DetectTexts == {join(ls, NL) : ls \in UNION {LineListsOf(DetectLines, n) : n \in 1..MaxTextLines}}

DetectorCalls == {[fn |-> "detectDelimiter", done |-> FALSE, text |-> t] : t \in DetectTexts}

CallDetectDelimiter ==
    /\ call.fn = "detectDelimiter"
    /\ \E r \in {detectDelimiter(call.text)} : Return("detectDelimiter", r)

\* texts of named box tables: an opening, then up to MaxSections sections of a
\* TABLE: line and a body of border and data lines
\* the rest of a TABLE: line: a name after a blank, and a name right after the colon
SectionNames == {<<SP, "x">>, <<"y">>}

BorderLine == <<"+", "-", "+">>
HeaderLine == <<"|", "a", "|", "b", "|">>
RowLine == <<"|", "1", "|", "2", "|">>
OpenRowLine == <<"|", "3", "|", "4">>

SectionBodies ==
    {<<HeaderLine, RowLine>>,
     <<BorderLine, HeaderLine, BorderLine, RowLine, OpenRowLine, BorderLine>>,
     <<HeaderLine, <<>>, OpenRowLine, HeaderLine>>,
     <<HeaderLine>>}

Sections ==
    {<<TABLEColon \o name>> \o body : name \in SectionNames, body \in SectionBodies}

\* nothing, a border, a note, a lone data line or a table without a name
Openings ==
    {<<>>, <<<<"=", "=">>>>, <<<<"n", "o", "t", "e">>, BorderLine>>,
     <<RowLine>>, <<HeaderLine, OpenRowLine>>}

MaxSections == 2

RECURSIVE SectionListsOf(_)
SectionListsOf(n) ==
    IF n = 0 THEN {<<>>}
    ELSE {ls \o section : ls \in SectionListsOf(n - 1), section \in Sections}

BoxTexts ==
    {join(opening \o ls, NL) :
        opening \in Openings, ls \in UNION {SectionListsOf(n) : n \in 1..MaxSections}}

BoxCalls == {[fn |-> "parseDatabricksFormat", done |-> FALSE, text |-> t] : t \in BoxTexts}

CallParseDatabricksFormat ==
    /\ call.fn = "parseDatabricksFormat"
    /\ \E r \in {parseDatabricksFormat(call.text)} : Return("parseDatabricksFormat", r)

\* Markdown texts: a block of up to MaxBlockLines lines, alone or followed by a
\* blank line and a second block
MarkdownLines ==
    {<<"|", "a", "|", "b", "|">>, <<"|", "-", "-", "|", "-", "-", "|">>,
     <<"1", "|", "2">>, <<"x">>}

MaxBlockLines == 3

MarkdownBlocks == UNION {LineListsOf(MarkdownLines, n) : n \in 1..MaxBlockLines}

SecondBlocks ==
    {<<<<"|", "c", "|">>, <<"|", "-", "-", "|", "-", "-", "|">>, <<"|", "3", "|">>>>,
     <<<<"x">>>>}

MarkdownTexts ==
    {join(b, NL) : b \in MarkdownBlocks}
    \cup {join(b \o <<<<>>>> \o c, NL) : b \in MarkdownBlocks, c \in SecondBlocks}

MarkdownCalls == {[fn |-> "parseMarkdownTable", done |-> FALSE, text |-> t] : t \in MarkdownTexts}

CallParseMarkdownTable ==
    /\ call.fn = "parseMarkdownTable"
    /\ \E r \in {parseMarkdownTable(call.text)} : Return("parseMarkdownTable", r)

\* JSON texts: arrays of up to MaxElements elements: objects with a number, a
\* string, null, true, the empty string, an array and an array-index key among
\* their members, the empty object, and elements that are no objects:
\* {"a":1}  {"b":null,"a":"x"}  {"b":1,"2":"y"}  {"a":""}  {"c":[1],"a":true}  {}  null  [1]  7
JsonElements ==
    {<<"{", QUOTE, "a", QUOTE, ":", "1", "}">>,
     <<"{", QUOTE, "b", QUOTE, ":", "n", "u", "l", "l", ",", QUOTE, "a", QUOTE, ":",
      QUOTE, "x", QUOTE, "}">>,
     <<"{", QUOTE, "b", QUOTE, ":", "1", ",", QUOTE, "2", QUOTE, ":", QUOTE, "y", QUOTE,
      "}">>,
     <<"{", QUOTE, "a", QUOTE, ":", QUOTE, QUOTE, "}">>,
     <<"{", QUOTE, "c", QUOTE, ":", "[", "1", "]", ",", QUOTE, "a", QUOTE, ":", "t",
      "r", "u", "e", "}">>,
     <<"{", "}">>,
     <<"n", "u", "l", "l">>,
     <<"[", "1", "]">>,
     <<"7">>}

MaxElements == 2

JsonTexts ==
    {<<"[">> \o join(els, ",") \o <<"]">> :
        els \in UNION {LineListsOf(JsonElements, n) : n \in 1..MaxElements}}

JsonCalls == {[fn |-> "parseJSONArray", done |-> FALSE, text |-> t] : t \in JsonTexts}

CallParseJSONArray ==
    /\ call.fn = "parseJSONArray"
    /\ \E r \in {parseJSONArray(call.text)} : Return("parseJSONArray", r)

\* fixed-width texts: up to MaxFixedLines lines among two columns two apart,
\* two columns three apart, a short line, a line without a space and an
\* underline; and texts of one line within four copies of another, where a
\* column is a gap although one line has a character in it
FixedLines ==
    {<<"a", "b", SP, SP, "c", "d">>, <<"a", SP, SP, SP, "c">>, <<"a", "b">>,
     <<"a", "b", "c", "d">>, <<"-", "-", SP, SP, "-", "-">>}

MaxFixedLines == 4

FixedTexts ==
    {join(ls, NL) : ls \in UNION {LineListsOf(FixedLines, n) : n \in 1..MaxFixedLines}}
    \cup {join(<<a, a, b, a, a>>, NL) : a, b \in FixedLines}

FixedWidthCalls ==
    {[fn |-> f, done |-> FALSE, text |-> t] :
        f \in {"isFixedWidthTable", "parseFixedWidthTable"}, t \in FixedTexts}

CallIsFixedWidthTable ==
    /\ call.fn = "isFixedWidthTable"
    /\ \E r \in {isFixedWidthTable(call.text)} : Return("isFixedWidthTable", r)

CallParseFixedWidthTable ==
    /\ call.fn = "parseFixedWidthTable"
    /\ \E r \in {parseFixedWidthTable(call.text)} : Return("parseFixedWidthTable", r)

Calls ==
    ReconcilerCalls \cup WriterCalls \cup ParserCalls \cup DetectorCalls \cup BoxCalls
    \cup MarkdownCalls \cup JsonCalls \cup FixedWidthCalls

CallInit == Constructed /\ call \in Calls /\ returned = <<>>

CallNext ==
    \/ CallGetCommonHeaders
    \/ CallPadRowToHeaders
    \/ CallDataToCSV
    \/ CallParseCSV
    \/ CallDetectDelimiter
    \/ CallParseDatabricksFormat
    \/ CallParseMarkdownTable
    \/ CallParseJSONArray
    \/ CallIsFixedWidthTable
    \/ CallParseFixedWidthTable

CallSpec == CallInit /\ [][CallNext]_vars

----------------------------------------------------------------------------
(* Claims *)

\* lastOp is a formatFromText call that passed the blank-text check
formatted == lastOp.op = "formatFromText" /\ Len(trim(lastOp.text)) > 0

\* the tables are tbls and the notification is that of the parser named by
loadedBy(by, tbls) == tables = tbls /\ toast = ToastLoaded(by)

\* no table parser loaded: the delimited fallback ran
fellBack == tables = <<>> /\ toast \in {ToastRows, ToastNoData}

occurrences(rows, row) == Cardinality({i \in 1..Len(rows) : rows[i] = row})

\* part[i..] can be read off whole[j..] from left to right, skipping rows
RECURSIVE subsequenceFrom(_, _, _, _)
subsequenceFrom(part, whole, i, j) ==
    IF i > Len(part) THEN TRUE
    ELSE IF j > Len(whole) THEN FALSE
    ELSE IF part[i] = whole[j] THEN subsequenceFrom(part, whole, i + 1, j + 1)
    ELSE subsequenceFrom(part, whole, i, j + 1)

isSubsequence(part, whole) == subsequenceFrom(part, whole, 1, 1)

\* C2: in every reachable state filteredData holds only rows of data, each no
\* more often than data holds it; and while no sortTable has run since the last
\* load, view selection or filter, filteredData is a subsequence of data in
\* data's order.
C2_FilteredWithinData ==
    /\ \A i \in 1..Len(filteredData) :
          /\ occurrences(data, filteredData[i]) > 0
          /\ occurrences(filteredData, filteredData[i]) <= occurrences(data, filteredData[i])
    /\ ~resorted => isSubsequence(filteredData, data)

\* a search narrowed the view to several rows and a sort then put them in an
\* order other than data's
C2_Witness ==
    /\ resorted
    /\ Len(filteredData) >= 2
    /\ Len(filteredData) < Len(data)
    /\ ~isSubsequence(filteredData, data)

\* C3: after every successful load, every switchToTable that selects a view and
\* every filterTable, filteredData is exactly the rows of data in which some
\* cell contains the search box's value case-insensitively, in data's order
\* (all rows when the box is empty).
C3_RederivedOnChange ==
    (lastOp.op \in {"formatFromText", "onload", "switchToTable", "filterTable"}
        /\ lastOp.acted)
    => filteredData = filterRows(data, searchTerm)

\* a and b hold the same rows the same number of times
isPermutation(a, b) ==
    /\ Len(a) = Len(b)
    /\ \A i \in 1..Len(a) : occurrences(a, a[i]) = occurrences(b, a[i])

\* C4: a sortTable step leaves data, headers and every table (name, headers,
\* rows, cells) as they were and permutes filteredData; filterTable and
\* switchToTable steps leave every table as it was.
C4_SortFrame ==
    [][/\ lastOp'.op = "sortTable" =>
            /\ data' = data
            /\ headers' = headers
            /\ tables' = tables
            /\ isPermutation(filteredData', filteredData)
       /\ lastOp'.op \in {"filterTable", "switchToTable"} => tables' = tables]_vars

\* a sort in single-table view, where data is the selected table's row list,
\* put the rows on display in another order than the table's
C4_Witness ==
    /\ lastOp.op = "sortTable"
    /\ currentTableIndex >= 0
    /\ currentTableIndex < Len(tables)
    /\ data = tables[currentTableIndex + 1].data
    /\ Len(filteredData) = Len(data)
    /\ filteredData # data

\* C5: after a successful load the tables, the selection, headers and data derive
\* from the new input only: after formatFromText the tables are those its parser
\* made of the text, after a file load there is no table, and while there are
\* tables the selection is one of their views, with that view's headers and data.
C5_LoadReplacesState ==
    ((lastOp.op \in {"formatFromText", "onload"}) /\ lastOp.acted) =>
        /\ lastOp.op = "formatFromText" => tables = classify(trim(lastOp.text), "auto").tables
        /\ lastOp.op = "onload" => tables = <<>>
        /\ tables # <<>> =>
              /\ currentTableIndex \in -1..(Len(tables) - 1)
              /\ headers = switchResult(IntIndex(currentTableIndex), tables).headers
              /\ data = switchResult(IntIndex(currentTableIndex), tables).data

\* C6: a formatFromText call that loads nothing (blank text, or no table and no
\* delimited row) leaves headers, data, filteredData, sortColumn, sortDirection,
\* tables and currentTableIndex as they were.
C6_FailedLoadKeepsState ==
    [][(lastOp'.op = "formatFromText" /\ ~lastOp'.acted) =>
          UNCHANGED <<headers, data, filteredData, sortColumn, sortDirection, tables,
                      currentTableIndex>>]_vars

\* the index is neither -1 nor one of 0..len(tables)-1 (NaN is neither)
invalidIndex(index, tbls) ==
    index.nan \/ (index.n # -1 /\ index.n \notin 0..(Len(tbls) - 1))

\* C7: a switchToTable step whose index is NaN or neither -1 nor a table index
\* leaves headers, data, filteredData, sortColumn, sortDirection and
\* currentTableIndex as they were.
C7_InvalidIndexNoOp ==
    [][(lastOp'.op = "switchToTable" /\ invalidIndex(lastOp'.index, tables)) =>
          UNCHANGED <<headers, data, filteredData, sortColumn, sortDirection,
                      currentTableIndex>>]_vars

\* switchToTable(NaN) ran over loaded tables with a sort active
C7_Witness ==
    /\ lastOp.op = "switchToTable"
    /\ lastOp.index.nan
    /\ Len(tables) > 0
    /\ sortColumn # NoSort
    /\ filteredData # data

\* C8: a switchToTable step that selects a view (-1, or a valid i) leaves
\* sortColumn none and filteredData equal to data, so that sortTable(c) would
\* sort ascending for every column c; and a sortTable step that follows it does
\* set the direction ascending.
C8_SelectionResetsSort ==
    [][/\ (lastOp'.op = "switchToTable" /\ ~invalidIndex(lastOp'.index, tables)) =>
            /\ sortColumn' = NoSort
            /\ filteredData' = data'
            /\ \A c \in 0..(Len(headers') - 1) :
                  (IF sortColumn' = c
                   THEN (IF sortDirection' = "asc" THEN "desc" ELSE "asc")
                   ELSE "asc") = "asc"
       /\ (lastOp.op = "switchToTable" /\ lastOp.acted /\ lastOp'.op = "sortTable") =>
            sortDirection' = "asc"]_vars

\* a view of several rows was selected while a descending sort was active
C8_Witness ==
    /\ lastOp.op = "switchToTable"
    /\ lastOp.acted
    /\ sortDirection = "desc"
    /\ Len(data) > 1
    /\ Len(headers) > 0

\* the selected single table was selected before over the same tables
reselected ==
    /\ lastOp.op = "switchToTable"
    /\ lastOp.acted
    /\ lastOp.again
    /\ currentTableIndex >= 0

\* C9 as stated: a second selection of a single-table index over the same
\* tables yields the headers, data, filteredData, sortColumn and sortDirection
\* the first selection yielded, whatever sortTable and filterTable calls came
\* between.
C9_SameStateOnReselect ==
    reselected =>
        Canonical(headers, data, filteredData, sortColumn, sortDirection)
            = selSnap[currentTableIndex + 1]

\* C9 amended: a second selection of a single-table index over the same tables
\* yields the headers, data, filteredData and sortColumn the first selection
\* yielded; the selection step itself leaves sortDirection as the calls before
\* it left it.
C9_SameViewOnReselect ==
    [][(lastOp'.op = "switchToTable" /\ lastOp'.acted /\ lastOp'.again
          /\ currentTableIndex' >= 0) =>
          /\ headers' = selSnap'[currentTableIndex' + 1].headers
          /\ data' = selSnap'[currentTableIndex' + 1].data
          /\ filteredData' = selSnap'[currentTableIndex' + 1].filteredData
          /\ sortColumn' = selSnap'[currentTableIndex' + 1].sortColumn
          /\ sortDirection' = sortDirection]_vars

\* a table was selected again while the search box holds a term that narrows
\* its rows
C9_Witness ==
    /\ reselected
    /\ searchTerm # <<>>
    /\ Len(filterRows(data, searchTerm)) < Len(data)
    /\ Len(data) > 1

\* the number of rows of the tables before the k-th
RECURSIVE rowsBefore(_, _)
rowsBefore(tbls, k) ==
    IF k <= 1 THEN 0 ELSE rowsBefore(tbls, k - 1) + Len(tbls[k - 1].data)

\* the latest handler ran switchToTable(-1), itself or as formatFromText's
\* default view of several tables
allTablesSelected ==
    \/ lastOp.op = "switchToTable" /\ ~lastOp.index.nan /\ lastOp.index.n = -1
    \/ lastOp.op = "formatFromText" /\ lastOp.acted /\ Len(tables) > 1
         /\ currentTableIndex = -1

\* C10: after switchToTable(-1) headers are 'Table' followed by
\* getCommonHeaders(); data has one row per table and row of it, in table order
\* then row order, so as many rows as the tables have together; each row starts
\* with the name of its table and has as many cells as there are headers.
C10_AllTablesView ==
    allTablesSelected =>
        /\ currentTableIndex = -1
        /\ headers = <<tableWord>> \o getCommonHeaders(tables)
        /\ Len(data) = rowsBefore(tables, Len(tables) + 1)
        /\ \A k \in 1..Len(tables) : \A i \in 1..Len(tables[k].data) :
              /\ data[rowsBefore(tables, k) + i][1] = tables[k].name
              /\ Len(data[rowsBefore(tables, k) + i]) = Len(headers)

\* switchToTable(-1) ran over tables of different headers and several rows
C10_Witness ==
    /\ lastOp.op = "switchToTable"
    /\ lastOp.index = IntIndex(-1)
    /\ Len(tables) >= 2
    /\ getCommonHeaders(tables) # tables[1].headers
    /\ Len(data) >= 3

\* the set of the elements of a sequence
elementsOf(seq) == {seq[i] : i \in 1..Len(seq)}

\* the first place header h occurs at over the tables in order: <<table, position>>
firstOccurrence(tbls, h) ==
    LET k == SetMin({j \in 1..Len(tbls) : h \in elementsOf(tbls[j].headers)})
    IN  <<k, indexOf(tbls[k].headers, h)>>

\* place p comes before place q
placeBefore(p, q) == p[1] < q[1] \/ (p[1] = q[1] /\ p[2] < q[2])

\* C11: getCommonHeaders returns the empty list for an empty TableSet, the first
\* table's header list as it is (duplicates included) when every table has
\* that same header list, and otherwise every header of any table exactly
\* once, ordered by first occurrence over the tables in order.
C11_CommonHeaders ==
    called("getCommonHeaders") =>
        LET tbls == call.tbls
            same == \A k \in 1..Len(tbls) : tbls[k].headers = tbls[1].headers
        IN  /\ Len(tbls) = 0 => returned = <<>>
            /\ (Len(tbls) > 0 /\ same) => returned = tbls[1].headers
            /\ (Len(tbls) > 0 /\ ~same) =>
                  /\ elementsOf(returned) =
                        UNION {elementsOf(tbls[k].headers) : k \in 1..Len(tbls)}
                  /\ \A i, j \in 1..Len(returned) :
                        i < j => /\ returned[i] # returned[j]
                                 /\ placeBefore(firstOccurrence(tbls, returned[i]),
                                                firstOccurrence(tbls, returned[j]))

\* identical header lists with a duplicate came back as they are, and so did a
\* union of differing lists
C11_Witness ==
    /\ called("getCommonHeaders")
    /\ Len(call.tbls) = MaxTables
    /\ \/ returned = <<<<"a">>, <<"a">>>>
       \/ call.tbls[1].headers # call.tbls[2].headers /\ Len(returned) > 2

\* C12: padRowToHeaders returns a row of len(common headers) cells in which
\* every value of the source row whose header is in the common header list is
\* present (none is dropped or overwritten), and every cell that holds no
\* source value is the empty string.
C12_PadPreservesValues ==
    called("padRowToHeaders") =>
        LET tbls == call.tbls
            tableHeaders == tbls[call.k].headers
            row == tbls[call.k].data[1]
            commonHeaders == getCommonHeaders(tbls)
            kept == {i \in 1..Len(row) :
                        i <= Len(tableHeaders) /\ tableHeaders[i] \in elementsOf(commonHeaders)}
        IN  /\ Len(returned) = Len(commonHeaders)
            /\ \A i \in kept : row[i] \in elementsOf(returned)
            /\ \A p \in 1..Len(returned) :
                  returned[p] # <<>> =>
                      \E i \in kept : row[i] = returned[p] /\ tableHeaders[i] = commonHeaders[p]

\* every row of rows has exactly as many cells as hdrs
rectangular(hdrs, rows) == \A i \in 1..Len(rows) : Len(rows[i]) = Len(hdrs)

\* C13: every table produced by a parser and the rows loaded by the delimited
\* fallback have rows of exactly len(headers) cells; hence in every reachable
\* state every row of data has exactly len(headers) cells.
C13_RowsMatchHeaders ==
    /\ rectangular(headers, data)
    /\ \A k \in 1..Len(tables) : rectangular(tables[k].headers, tables[k].data)

\* the cells of a row, each trimmed
trimmedRow(row) == [i \in 1..Len(row) |-> trim(row[i])]

\* C14: CSV round trip: parseCSV of the dataToCSV output with ',' returns the
\* header row followed by all the rows in order, each with the same number of
\* cells and each cell equal to the original up to trimming.
C14_CsvRoundTrip ==
    called("dataToCSV") =>
        LET written == <<call.headers>> \o call.rows IN
        parseCSV(returned, ",") = [i \in 1..Len(written) |-> trimmedRow(written[i])]

\* C15: sortTable(c) on a column other than the active sort column sets the
\* sort column to c and the direction to asc, whatever the direction was; each
\* further consecutive sortTable(c) flips the direction.
C15_DirectionToggles ==
    [][lastOp'.op = "sortTable" =>
          /\ sortColumn' # sortColumn => sortDirection' = "asc"
          /\ sortColumn' = sortColumn =>
                /\ sortDirection = "asc" => sortDirection' = "desc"
                /\ sortDirection = "desc" => sortDirection' = "asc"]_vars

\* a second consecutive sortTable on the same column turned the direction to desc
C15_Witness ==
    /\ lastOp.op = "sortTable"
    /\ sortColumn # NoSort
    /\ sortDirection = "desc"

\* cell is a decimal integer numeral
isIntegerNumeral(cell) == Len(cell) > 0 /\ \A i \in 1..Len(cell) : cell[i] \in Digit

\* the rows on display all have an integer numeral in the sorted column
numericColumn ==
    /\ sortColumn >= 0
    /\ \A i \in 1..Len(filteredData) :
          /\ sortColumn < Len(filteredData[i])
          /\ isIntegerNumeral(filteredData[i][sortColumn + 1])

\* the number in the sorted column of the i-th row on display
sortedValue(i) == numeralValue(filteredData[i][sortColumn + 1])

\* C16: when every cell of the sorted column is a decimal integer numeral,
\* sortTable orders filteredData by numeric value in ascending direction and
\* by decreasing numeric value in descending direction, not lexically.
C16_NumericOrder ==
    (lastOp.op = "sortTable" /\ numericColumn) =>
        \A i, j \in 1..Len(filteredData) :
            i < j => IF sortDirection = "asc" THEN sortedValue(i) <= sortedValue(j)
                     ELSE sortedValue(i) >= sortedValue(j)

\* the cells 10, 9, 2 stand sorted as 2, 9, 10, where the lexical order is 10, 2, 9
C16_Witness ==
    /\ lastOp.op = "sortTable"
    /\ numericColumn
    /\ sortDirection = "asc"
    /\ Len(filteredData) = 3
    /\ <<sortedValue(1), sortedValue(2), sortedValue(3)>> = <<2, 9, 10>>

\* what the two-state machine makes of the text from position i on: the
\* characters of cell text, the ends of cells and the ends of rows
CellText(c) == [kind |-> "text", c |-> c]
CellEnd == [kind |-> "cellEnd", c |-> ""]
RowEnd == [kind |-> "rowEnd", c |-> ""]

RECURSIVE twoStateScan(_, _, _, _)
twoStateScan(text, delimiter, i, state) ==
    IF i > Len(text) THEN <<>>
    ELSE LET c == text[i]
             pair(x, y) == c = x /\ i < Len(text) /\ text[i + 1] = y
         IN  IF state = "quoted"
             THEN IF pair(QUOTE, QUOTE)
                  THEN <<CellText(QUOTE)>> \o twoStateScan(text, delimiter, i + 2, "quoted")
                  ELSE IF c = QUOTE THEN twoStateScan(text, delimiter, i + 1, "unquoted")
                  ELSE <<CellText(c)>> \o twoStateScan(text, delimiter, i + 1, "quoted")
             ELSE IF c = QUOTE THEN twoStateScan(text, delimiter, i + 1, "quoted")
                  ELSE IF c = delimiter
                  THEN <<CellEnd>> \o twoStateScan(text, delimiter, i + 1, "unquoted")
                  ELSE IF c = NL
                  THEN <<RowEnd>> \o twoStateScan(text, delimiter, i + 1, "unquoted")
                  ELSE IF pair(CR, NL)
                  THEN <<RowEnd>> \o twoStateScan(text, delimiter, i + 2, "unquoted")
                  ELSE IF c = CR THEN twoStateScan(text, delimiter, i + 1, "unquoted")
                  ELSE <<CellText(c)>> \o twoStateScan(text, delimiter, i + 1, "unquoted")

\* the pieces of a scan between the marks of one kind, the last piece included
RECURSIVE piecesOf(_, _)
piecesOf(scan, mark) ==
    LET at == {i \in 1..Len(scan) : scan[i] = mark} IN
    IF at = {} THEN <<scan>>
    ELSE <<SubSeq(scan, 1, SetMin(at) - 1)>>
         \o piecesOf(SubSeq(scan, SetMin(at) + 1, Len(scan)), mark)

\* the rows of a scan: its pieces between row ends, each cut at its cell ends
\* into cells of trimmed text
scannedRows(scan) ==
    LET cellOf(piece) == trim([i \in 1..Len(piece) |-> piece[i].c])
        rowOf(piece) == LET cells == piecesOf(piece, CellEnd)
                        IN  [i \in 1..Len(cells) |-> cellOf(cells[i])]
        rows == piecesOf(scan, RowEnd)
    IN  [i \in 1..Len(rows) |-> rowOf(rows[i])]

\* row has a cell that is not empty
hasContent(row) == \E i \in 1..Len(row) : Len(row[i]) > 0

\* C17: parseCSV is a two-state machine: a quote while unquoted enters quoted;
\* while quoted the delimiter, \n and \r\n are cell text, a doubled quote is one
\* literal quote and a single quote returns to unquoted; the delimiter ends a
\* cell and \n or \r\n ends a row only while unquoted; at the end of input,
\* inside a quote or not, the pending cell and row are flushed.
C17_TwoStateMachine ==
    called("parseCSV") =>
        returned = SelectSeq(scannedRows(twoStateScan(call.text, call.delimiter, 1, "unquoted")),
                             hasContent)

\* an unterminated quote held the delimiter and a line break as cell text and
\* was flushed at the end of input
C17_Witness ==
    /\ called("parseCSV")
    /\ call.text = <<QUOTE, ",", NL, "a">>
    /\ returned = <<<<<<",", NL, "a">>>>>>

\* the text has no quote and no carriage return but those of \r\n
plainLines(text) ==
    \A i \in 1..Len(text) :
        /\ text[i] # QUOTE
        /\ text[i] = CR => (i < Len(text) /\ text[i + 1] = NL)

\* the input rows of such a text: its lines without the \r of \r\n, each cut
\* at the delimiter into trimmed cells
inputRows(text, delimiter) ==
    LET lines == split(text, NL)
        lineOf(l) == IF Len(l) > 0 /\ l[Len(l)] = CR THEN SubSeq(l, 1, Len(l) - 1) ELSE l
        cellsOf(l) == LET parts == split(lineOf(l), delimiter)
                      IN  [j \in 1..Len(parts) |-> trim(parts[j])]
    IN  [i \in 1..Len(lines) |-> cellsOf(lines[i])]

\* C18: the output of parseCSV has no row of zero cells and no row whose cells
\* are all empty, however the row was ended; every input row with a non-empty
\* trimmed cell is kept, in input order.
C18_NoEmptyRows ==
    called("parseCSV") =>
        /\ \A i \in 1..Len(returned) :
              /\ Len(returned[i]) > 0
              /\ \E j \in 1..Len(returned[i]) : returned[i][j] # <<>>
        /\ plainLines(call.text) =>
              returned = SelectSeq(inputRows(call.text, call.delimiter), hasContent)

\* the row ended by \r\n was kept and the blank row after it was not
C18_Witness ==
    /\ called("parseCSV")
    /\ call.text = <<"a", CR, NL, NL>>
    /\ returned = <<<<<<"a">>>>>>

\* the first n elements of a sequence, or all of it
firstOf(seq, n) == SubSeq(seq, 1, IF Len(seq) < n THEN Len(seq) ELSE n)

\* the per-line counts of candidate d over the first 5 non-empty lines of text
countsOverNonEmpty(text, d) ==
    LET lines == firstOf(SelectSeq(split(text, NL), LAMBDA l : Len(l) > 0), MaxDetectLines)
    IN  [i \in 1..Len(lines) |-> countChar(lines[i], d)]

\* mean/(variance+1) of the counts as a fraction, 0 when the mean is 0 or
\* there is no line
scoreOf(counts) ==
    IF Len(counts) = 0 THEN [num |-> 0, den |-> 1] ELSE delimiterScore(counts)

\* C19: detectDelimiter returns, among comma, semicolon, tab and pipe in that
\* order, the candidate with the strictly highest score mean/(variance+1) of
\* its counts per line over the first 5 non-empty lines of the text; on equal
\* scores the earlier candidate wins, and comma when no candidate occurs.
C19_HighestScoreWins ==
    called("detectDelimiter") =>
        \E k \in 1..Len(Delimiters) :
            LET score(j) == scoreOf(countsOverNonEmpty(call.text, Delimiters[j])) IN
            /\ returned = Delimiters[k]
            /\ \A j \in 1..Len(Delimiters) : ~scoreGreater(score(j), score(k))
            /\ \A j \in 1..(k - 1) : scoreGreater(score(k), score(j))

\* the lines of the text, trimmed
trimmedLines(text) == LET lines == split(text, NL) IN [i \in 1..Len(lines) |-> trim(lines[i])]

\* line i of the text is a `TABLE: <name>` line
isTableLine(text, i) ==
    LET line == trimmedLines(text)[i] IN
    startsWith(line, TABLEColon) /\ Len(trim(SubSeq(line, Len(TABLEColon) + 1, Len(line)))) > 0

\* the positions of the TABLE: lines, in order
tableLines(text) ==
    LET at == {i \in 1..Len(trimmedLines(text)) : isTableLine(text, i)}
    IN  [j \in 1..Cardinality(at) |->
            CHOOSE i \in at : Cardinality({h \in at : h < i}) = j - 1]

\* the data lines among the lines from position lo to position hi
dataLinesIn(text, lo, hi) ==
    SelectSeq(SubSeq(trimmedLines(text), lo, hi), LAMBDA l : Len(l) > 0 /\ l[1] = "|")

\* the data lines of the section of the j-th TABLE: line
sectionData(text, j) ==
    LET at == tableLines(text) IN
    dataLinesIn(text, at[j] + 1,
                IF j < Len(at) THEN at[j + 1] - 1 ELSE Len(trimmedLines(text)))

\* each of the k >= 1 TABLE: lines of the text is followed by a header data
\* line and at least one further data line
sectionsFollowed(text) ==
    /\ Len(tableLines(text)) > 0
    /\ \A j \in 1..Len(tableLines(text)) : Len(sectionData(text, j)) >= 2

\* the data lines before the first TABLE: line
leadingData(text) == dataLinesIn(text, 1, tableLines(text)[1] - 1)

\* the table of a name and the data lines of a section
tableOfLines(name, lines) ==
    [name |-> name, headers |-> boxCells(lines[1]),
     data |-> [i \in 1..(Len(lines) - 1) |-> boxCells(lines[i + 1])]]

\* the table of the section of the j-th TABLE: line
sectionTable(text, j) ==
    LET line == trimmedLines(text)[tableLines(text)[j]] IN
    tableOfLines(trim(SubSeq(line, Len(TABLEColon) + 1, Len(line))), sectionData(text, j))

\* C20: for input in which each of k TABLE: lines is followed (separator lines
\* aside) by a header data line and at least one further data line,
\* parseDatabricksFormat returns exactly k tables in input order, each with
\* the name of its TABLE: line, the cells of its first data line as headers
\* and one row per later data line of its section, in order.
C20_OneTablePerSection ==
    (called("parseDatabricksFormat") /\ sectionsFollowed(call.text)) =>
        /\ Len(returned) = Len(tableLines(call.text))
        /\ \A j \in 1..Len(returned) : returned[j] = sectionTable(call.text, j)

\* C20, amended: the k tables of the sections are returned in input order,
\* alone when fewer than two data lines stand before the first TABLE: line,
\* and otherwise after one more table, named 'Table 1', made of those lines.
C20_SectionsAfterLeadingTable ==
    (called("parseDatabricksFormat") /\ sectionsFollowed(call.text)) =>
        LET k == Len(tableLines(call.text))
            lead == leadingData(call.text)
            extra == IF Len(lead) >= 2 THEN 1 ELSE 0
        IN  /\ Len(returned) = k + extra
            /\ \A j \in 1..k : returned[j + extra] = sectionTable(call.text, j)
            /\ extra = 1 => returned[1] = tableOfLines(defaultTableName(1), lead)

\* two sections of different names and different numbers of rows, with no
\* data line before them, came back as two tables
C20_Witness ==
    /\ called("parseDatabricksFormat")
    /\ sectionsFollowed(call.text)
    /\ Len(leadingData(call.text)) = 0
    /\ Len(returned) = 2
    /\ returned[1].name # returned[2].name
    /\ Len(returned[1].data) # Len(returned[2].data)

\* the data lines of the text by section: those before the first TABLE: line,
\* then those of each TABLE: line up to the next one
sectionsOf(text) ==
    IF Len(tableLines(text)) = 0
    THEN <<dataLinesIn(text, 1, Len(trimmedLines(text)))>>
    ELSE <<leadingData(text)>> \o [j \in 1..Len(tableLines(text)) |-> sectionData(text, j)]

\* C21: in every table returned by parseDatabricksFormat the header row and all
\* data rows come from data lines of one and the same TABLE: section: no TABLE:
\* line lies between the header line and a row's line, and the header line of
\* one section never becomes a data row of another table.
C21_TableWithinSection ==
    called("parseDatabricksFormat") =>
        \A t \in 1..Len(returned) :
            \E s \in 1..Len(sectionsOf(call.text)) :
                LET lines == sectionsOf(call.text)[s] IN
                isSubsequence(<<returned[t].headers>> \o returned[t].data,
                              [i \in 1..Len(lines) |-> boxCells(lines[i])])

\* the blocks of the text: its lines between blank lines
blocksOf(text) == piecesOf(split(text, NL), <<>>)

\* the line is a separator line of a Markdown table
isSeparatorRow(line) == sepPatternTest(trim(line), {1}, {Len(trim(line)) + 1})

\* the line contains `|`
hasPipe(line) == \E i \in 1..Len(line) : line[i] = "|"

\* the position of the first separator line of the block, 0 if there is none
firstSeparator(block) ==
    LET at == {i \in 1..Len(block) : isSeparatorRow(block[i])}
    IN  IF at = {} THEN 0 ELSE SetMin(at)

\* the lines of the block after its first separator line that contain `|`
rowLines(block) ==
    SelectSeq(SubSeq(block, firstSeparator(block) + 1, Len(block)), hasPipe)

\* the block yields a table
yieldsTable(block) == firstSeparator(block) > 1 /\ Len(rowLines(block)) > 0

\* C22: parseMarkdownTable yields a table for a block only if the block's first
\* separator line is not its first line and a later line contains `|`; the
\* headers are the cells of the line above that separator, every later line
\* containing `|` is one data row, and the tables are named Table 1, Table 2,
\* ... in block order, counting only the blocks that yield a table.
C22_MarkdownBlocks ==
    called("parseMarkdownTable") =>
        LET yielding == SelectSeq(blocksOf(call.text), yieldsTable) IN
        /\ Len(returned) = Len(yielding)
        /\ \A j \in 1..Len(yielding) :
              LET block == yielding[j]
                  rows == rowLines(block)
              IN  /\ returned[j].name = tableWord \o <<SP>> \o numeral(j)
                  /\ returned[j].headers = splitRow(block[firstSeparator(block) - 1])
                  /\ returned[j].data = [i \in 1..Len(rows) |-> splitRow(rows[i])]

\* a first block that starts with its separator gave no table and the second
\* block gave the table named Table 1
C22_Witness ==
    /\ called("parseMarkdownTable")
    /\ Len(blocksOf(call.text)) = 2
    /\ firstSeparator(blocksOf(call.text)[1]) = 1
    /\ Len(returned) = 1
    /\ returned[1].name = tableWord \o <<SP, "1">>
    /\ returned[1].headers = <<<<"c">>>>

\* the keys written in a JSON text whose values hold no object, in the order
\* of the text: the strings that a colon follows
keysWritten(text) ==
    LET quotes == {p \in 1..Len(text) : text[p] = QUOTE}
        opening == {p \in quotes : Cardinality({q \in quotes : q < p}) % 2 = 0}
        closing(p) == SetMin({q \in quotes : q > p})
        isKey(p) == LET n == skipWs(text, closing(p) + 1) IN n <= Len(text) /\ text[n] = ":"
        at == {p \in opening : isKey(p)}
        nth == [j \in 1..Cardinality(at) |->
                   CHOOSE p \in at : Cardinality({q \in at : q < p}) = j - 1]
    IN  [j \in 1..Len(nth) |-> SubSeq(text, nth[j] + 1, closing(nth[j]) - 1)]

\* seq without the later occurrences of its elements
firstSeen(seq) == SelectSeq([i \in 1..Len(seq) |-> IF \E j \in 1..(i - 1) : seq[j] = seq[i]
                                                   THEN <<"later">> ELSE <<"first", seq[i]>>],
                            LAMBDA e : e[1] = "first")

\* C23: parseJSONArray returns one table named 'JSON Data' whose headers are
\* the keys of all elements that are non-null, non-array objects, each once,
\* in first-seen order; it has one row per such element, in array order, each
\* of len(headers) cells, and a cell is the empty string exactly when the key
\* is absent or its value is null.
C23_JsonTable ==
    called("parseJSONArray") =>
        LET elements == JSONparse(call.text).v.items
            objects == SelectSeq(elements, LAMBDA e : e.t = "obj")
            seen == firstSeen(keysWritten(call.text))
        IN  /\ returned.name = <<"J", "S", "O", "N", SP, "D", "a", "t", "a">>
            /\ returned.headers = [j \in 1..Len(seen) |-> seen[j][2]]
            /\ Len(returned.data) = Len(objects)
            /\ \A i \in 1..Len(objects) :
                  /\ Len(returned.data[i]) = Len(returned.headers)
                  /\ \A j \in 1..Len(returned.headers) :
                        LET at == {m \in 1..Len(objects[i].keys) :
                                      objects[i].keys[m] = returned.headers[j]}
                        IN  (returned.data[i][j] = <<>>) <=>
                                (at = {} \/ \A m \in at : objects[i].items[m].t = "null")

\* the elements of a set of integers in increasing order
inOrder(S) ==
    [j \in 1..Cardinality(S) |-> CHOOSE x \in S : Cardinality({y \in S : y < x}) = j - 1]

\* the content lines of a fixed-width text: its non-blank lines, padded to
\* the longest, without the underline rows
contentLinesOf(text) ==
    LET lines == nonBlankLines(text) IN
    SelectSeq([i \in 1..Len(lines) |-> padEnd(lines[i], maxLength(lines))],
              LAMBDA l : ~isUnderline(l))

\* the width of the padded lines
widthOf(text) == maxLength(nonBlankLines(text))

\* 0-based column i is a space in at least 80% of the content lines
mostlySpace(text, i) ==
    LET cl == contentLinesOf(text) IN
    5 * Cardinality({k \in 1..Len(cl) : cl[k][i + 1] = SP}) >= 4 * Len(cl)

\* the gaps that close: <<a, b>> for every maximal run a..b of at least 2
\* mostly-space columns that a column follows which is not
closedGaps(text) ==
    {g \in (0..(widthOf(text) - 1)) \X (0..(widthOf(text) - 2)) :
        /\ g[2] - g[1] >= 1
        /\ \A i \in g[1]..g[2] : mostlySpace(text, i)
        /\ ~mostlySpace(text, g[2] + 1)
        /\ g[1] = 0 \/ ~mostlySpace(text, g[1] - 1)}

\* the cut of a gap: its midpoint, rounded down
cutOf(g) == (g[1] + g[2] + 1) \div 2

\* the line sliced at the cuts, every slice trimmed
slicedAt(line, cuts) ==
    [k \in 1..(Len(cuts) + 1) |->
        trim(SubSeq(line, (IF k = 1 THEN 0 ELSE cuts[k - 1]) + 1,
                    IF k > Len(cuts) THEN Len(line) ELSE cuts[k]))]

\* nonBlankLines is not empty: the text has a line to measure
hasLines(text) == Len(nonBlankLines(text)) > 0

\* C24: parseFixedWidthTable cuts once for every gap that closes, at the
\* rounded-down midpoint of the gap, a column inside the gap, and nowhere
\* else; the first content line sliced at the cuts gives the headers, each
\* later content line one data row unless all its cells are empty, and there
\* is no table when there is no cut or no surviving data row.
C24_CutsAtClosedGaps ==
    (called("parseFixedWidthTable") /\ hasLines(call.text)) =>
        LET cl == contentLinesOf(call.text)
            cuts == inOrder({cutOf(g) : g \in closedGaps(call.text)})
            rows == SelectSeq([i \in 1..(Len(cl) - 1) |-> slicedAt(cl[i + 1], cuts)], hasContent)
        IN  /\ \A g \in closedGaps(call.text) : g[1] <= cutOf(g) /\ cutOf(g) <= g[2]
            /\ IF Len(cl) < 2 \/ Len(cuts) = 0 \/ Len(rows) = 0
               THEN returned = <<>>
               ELSE /\ Len(returned) = 1
                    /\ returned[1].headers = slicedAt(cl[1], cuts)
                    /\ returned[1].data = rows

\* a column that is a space in four lines of five was cut at the midpoint of
\* its gap, through the characters of the fifth line
C24_Witness ==
    /\ called("parseFixedWidthTable")
    /\ Len(contentLinesOf(call.text)) = 5
    /\ closedGaps(call.text) = {<<2, 3>>}
    /\ Len(returned) = 1
    /\ <<<<"a", "b", "c">>, <<"d">>>> \in elementsOf(returned[1].data)

\* no row on display sorts before a row above it, under the comparator of
\* sortTable for the sort column and direction
displayOrdered ==
    \A i, j \in 1..Len(filteredData) :
        i < j => compareRows(filteredData[i], filteredData[j], sortColumn, sortDirection) <= 0

\* C25: in every reachable state, whenever a sort is shown as active
\* (sortColumn is a column index), filteredData is ordered by that column in
\* sortDirection under the sort comparator, after any interleaving of
\* sortTable, filterTable, switchToTable and loads.
C25_SortedWhileActive ==
    (sortColumn >= 0 /\ consistentOn(filteredData, sortColumn, sortDirection)) =>
        displayOrdered

\* C26: the fixed-width detector and parser agree: for every input on which
\* isFixedWidthTable returns true, parseFixedWidthTable returns a table, so
\* an input classified as fixed-width is never handed on to the
\* delimited-text fallback.
C26_DetectorAndParserAgree ==
    (called("isFixedWidthTable") /\ returned = TRUE) =>
        Len(parseFixedWidthTable(call.text)) = 1

\* C27: every table of a TableSet installed by a successful formatFromText,
\* whichever parser produced it, has at least one header cell and at least
\* one data row; an input that yields headers but no data row is never loaded
\* as a table.
C27_TablesHaveHeadersAndRows ==
    \A k \in 1..Len(tables) : Len(tables[k].headers) >= 1 /\ Len(tables[k].data) >= 1

\* the rows of a CSV text whose cells need no quoting: its lines after the
\* header line, cut at the commas
csvRows(csv) ==
    LET lines == split(csv, NL) IN [i \in 1..(Len(lines) - 1) |-> split(lines[i + 1], ",")]

\* the object has, for every header, the cell of the row at the header's last place
objectOfRow(obj, hdrs, row) ==
    \A j \in 1..Len(hdrs) :
        (j <= Len(row) /\ \A m \in (j + 1)..Len(hdrs) : hdrs[m] # hdrs[j]) =>
            \E m \in 1..Len(obj.keys) : obj.keys[m] = hdrs[j] /\ obj.items[m] = JStr(row[j])

\* the td rows of all the tables of a rich HTML export, in order
RECURSIVE htmlRows(_)
htmlRows(html) == IF Len(html) = 0 THEN <<>> ELSE Head(html).dataRows \o htmlRows(Tail(html))

\* C28: all three exports (dataToCSV, exportJSON, generateRichHTML) export
\* exactly the rows currently in filteredData, in filteredData's current
\* order, in every view including All Tables: a filter or sort applied to the
\* view is reflected in each export.  (For the rich HTML export a row counts
\* as the row on display also without its Table cell and its padding.)
C28_ExportsFollowView ==
    LET csv == csvRows(dataToCSV(headers, filteredData))
        json == exportJSON(headers, filteredData)
        html == htmlRows(generateRichHTML(tables, currentTableIndex, headers, filteredData))
    IN  /\ csv = filteredData
        /\ Len(json) = Len(filteredData)
        /\ \A i \in 1..Len(json) : objectOfRow(json[i], headers, filteredData[i])
        /\ Len(html) = Len(filteredData)
        /\ \A i \in 1..Len(html) : isSubsequence(html[i], filteredData[i])

\* the last handler that ran was a paste that loaded, so every read still in
\* flight was started before it
pasteStartedLast == lastOp.op = "formatFromText" /\ lastOp.acted /\ pending # <<>>

\* C29: when several loads are started one after the other (file loads
\* through processFile, whose read completes in a later callback, and pasted
\* loads through formatFromText), the final headers, data and filteredData are
\* those of the load started last: a read that was started before a paste and
\* completes after it, as the last one in flight, leaves the paste's headers,
\* data and filteredData in place.
C29_LastStartedLoadWins ==
    [][(pasteStartedLast /\ Len(pending') < Len(pending) /\ pending' = <<>>)
          => UNCHANGED <<headers, data, filteredData>>]_vars

\* the cut positions parseFixedWidthTable computes for the text
cutsOf(text) ==
    cutsLoop(gapColumns(contentLinesOf(text), widthOf(text)), widthOf(text), 0, -1, <<>>)

\* the characters of a list of cells, one cell after the other
RECURSIVE cellsText(_)
cellsText(cells) == IF Len(cells) = 0 THEN <<>> ELSE Head(cells) \o cellsText(Tail(cells))

\* the characters of a string that are not spaces, in order
nonSpaces(s) == SelectSeq(s, LAMBDA c : c # SP)

====
